---- MODULE Spec2Model ----
(***************************************************************************)
(* A model of the Al Bahr Sea Tours WhatsApp bot (src/app.py): the session *)
(* map booking_sessions, the lead sheet, the booking conversation driven   *)
(* by the webhook and handle_interaction, and the reminder checker thread. *)
(*                                                                         *)
(* A text is a sequence of '|'-free segments: <<"Al", "Harthy">> is the    *)
(* text "Al|Harthy".  An interaction id is the sequence of its '|'-parts,  *)
(* which is what handle_interaction's split('|') makes of it.  Times are   *)
(* minutes, dates are day numbers (minute \div MinutesPerDay).             *)
(***************************************************************************)
EXTENDS Integers, Sequences, FiniteSets, TLC

VARIABLES
    booking_sessions,   \* phone -> session dict (a function on its keys)
    sheet_rows,         \* the rows of the lead sheet, in append order
    now,                \* the wall clock, in minutes
    inflight,           \* phone -> the complete_booking call past add_lead_to_sheet
    last_list,          \* phone -> the latest parametrised list message received
    last,               \* the inbound event handled last and the response status
    outbox,             \* the messages sent while handling the last step
    received,           \* phone -> reminders received for the job scheduled last
    script,             \* how far the events so far follow the end-to-end conversation
    serial,             \* phone -> the sessions that handling the events of an overlap
                        \* one after the other leaves
    applied,            \* the function applied last on its own, its arguments and value
    ADMIN_NUMBER        \* the admin number the server was configured with

vars == <<booking_sessions, sheet_rows, now, inflight, last_list, last, outbox, received,
          script, serial, applied, ADMIN_NUMBER>>

(***************************************************************************)
(* Bounds of the model.                                                    *)
(***************************************************************************)
MaxRows == 2
MaxElapsed == 2
MaxReceived == 2
MaxDays == 7

StartNow == 10 * 60

Senders == {"96891234567"}

SendOutcomes == {"ok", "rejected", "lost_response"}

(***************************************************************************)
(* Program constants.                                                      *)
(***************************************************************************)
MinutesPerDay == 1440
ReminderDelay == 2
DefaultCapacity == 6
DefaultPeople == 1

None == "None"
NoSession == <<>>

(***************************************************************************)
(* Dict helpers: a Python dict is a function on its keys.                  *)
(***************************************************************************)
Get(d, k, default) == IF k \in DOMAIN d THEN d[k] ELSE default

Update(d, u) == u @@ d

Del(m, k) == [x \in DOMAIN m \ {k} |-> m[x]]

Put(m, k, v) == (k :> v) @@ m

Seg(str) == <<str>>

(***************************************************************************)
(* String facts.  Python's string operations are modelled by tables over   *)
(* the strings the model uses; OTHER is a string with none of the marks.   *)
(***************************************************************************)
\* str.lower() of one segment
LowerSeg(str) ==
    CASE str = "Tomorrow" -> "tomorrow"
      [] str = "TOMORROW" -> "tomorrow"
      [] str = "Friday" -> "friday"
      [] str = "Sunday" -> "sunday"
      [] str = "Hi" -> "hi"
      [] str = "Stats" -> "stats"
      [] str = "Reminder 91234567" -> "reminder 91234567"
      [] str = "Book Tour" -> "book tour"
      [] str = "Detailed Tour Inquiry" -> "detailed tour inquiry"
      [] str = "Not specified" -> "not specified"
      [] str = "Ahmed Al Harthy" -> "ahmed al harthy"
      [] str = "Al" -> "al"
      [] str = "Harthy" -> "harthy"
      [] str = "Dolphin Watching" -> "dolphin watching"
      [] str = "Fishing Trip" -> "fishing trip"
      [] OTHER -> str

Lower(text) == [i \in DOMAIN text |-> LowerSeg(text[i])]

\* the words of parse_date's relative branch that occur in a lowercase segment
DateWordsInSeg(str) ==
    CASE str = "tomorrow" -> {"tomorrow"}
      [] str = "today" -> {"today"}
      [] str = "next friday" -> {"friday"}
      [] str = "friday" -> {"friday"}
      [] str = "monday" -> {"monday"}
      [] str = "tuesday" -> {"tuesday"}
      [] str = "wednesday" -> {"wednesday"}
      [] str = "thursday" -> {"thursday"}
      [] str = "saturday" -> {"saturday"}
      [] str = "sunday" -> {"sunday"}
      [] str = "friday or saturday" -> {"friday", "saturday"}
      [] OTHER -> {}

DateWordsIn(text) == UNION {DateWordsInSeg(text[i]) : i \in DOMAIN text}

\* the fields <<year, month, day>> that the first of parse_date's formats to match
\* a string reads from it, or <<>> when none matches
DateFields(str) ==
    CASE str = "2024-12-25" -> <<2024, 12, 25>>
      [] str = "2025-01-01" -> <<2025, 1, 1>>
      [] str = "2024-02-29" -> <<2024, 2, 29>>
      [] str = "2025-02-29" -> <<2025, 2, 29>>
      [] str = "25/12/2024" -> <<2024, 12, 25>>
      [] OTHER -> <<>>

IsLeap(year) == year % 4 = 0 /\ (year % 100 # 0 \/ year % 400 = 0)

DaysIn(year, month) ==
    IF month = 2 THEN (IF IsLeap(year) THEN 29 ELSE 28)
    ELSE IF month \in {4, 6, 9, 11} THEN 30 ELSE 31

\* a datetime.date as the number of days after Monday 2024-12-23
DayNumber(year, month, day) ==
    LET y == IF month <= 2 THEN year - 1 ELSE year
        era == y \div 400
        yoe == y - era * 400
        mp == (month + 9) % 12
        doy == (153 * mp + 2) \div 5 + day - 1
        doe == yoe * 365 + yoe \div 4 - yoe \div 100 + doy
    IN  era * 146097 + doe - 719468 - 20080

\* datetime.strptime over parse_date's formats: the day number, or <<>> (ValueError)
IsoChristmas == DayNumber(2024, 12, 25)

Strptime(text) ==
    IF Len(text) # 1 \/ DateFields(text[1]) = <<>> THEN <<>>
    ELSE LET f == DateFields(text[1])
         IN  IF f[3] > DaysIn(f[1], f[2]) THEN <<>> ELSE <<DayNumber(f[1], f[2], f[3])>>

\* the first run of digits of a string (re.findall(r'\d+', s)[0]), or <<>>
FirstNumberInSeg(str) ==
    CASE str = "1 people" -> <<1>>
      [] str = "2 people" -> <<2>>
      [] str = "3 people" -> <<3>>
      [] str = "4 people" -> <<4>>
      [] str = "5 people" -> <<5>>
      [] str = "6 people" -> <<6>>
      [] str = "2" -> <<2>>
      [] str = "8 people" -> <<8>>
      [] str = "91234567" -> <<91234567>>
      [] OTHER -> <<>>

RECURSIVE FirstNumberIn(_)
FirstNumberIn(text) ==
    IF text = <<>> THEN <<>>
    ELSE IF FirstNumberInSeg(Head(text)) # <<>> THEN FirstNumberInSeg(Head(text))
    ELSE FirstNumberIn(Tail(text))

\* the groups of parse_time's regular expression: <<hour, minute, period>>, or <<>>
ClockGroups(text) ==
    CASE text = <<"8:00 AM">> -> <<8, 0, "am">>
      [] text = <<"9:00 AM">> -> <<9, 0, "am">>
      [] text = <<"10:00 AM">> -> <<10, 0, "am">>
      [] text = <<"2:00 PM">> -> <<2, 0, "pm">>
      [] text = <<"4:00 PM">> -> <<4, 0, "pm">>
      [] text = <<"6:00 PM">> -> <<6, 0, "pm">>
      [] OTHER -> <<>>

(***************************************************************************)
(* Pure helpers of the program.  An optional value is <<>> (None) or <<v>>.*)
(***************************************************************************)
Today(t) == t \div MinutesPerDay

\* datetime.date.weekday(): day 0 of the model is a Monday
Weekday(day) == day % 7

WeekdayIndex(word) ==
    CASE word = "monday" -> 0
      [] word = "tuesday" -> 1
      [] word = "wednesday" -> 2
      [] word = "thursday" -> 3
      [] word = "friday" -> 4
      [] word = "saturday" -> 5
      [] word = "sunday" -> 6

WeekdayOrder == <<"monday", "tuesday", "wednesday", "thursday", "friday", "saturday", "sunday">>

RECURSIVE FirstWeekday(_, _, _)
FirstWeekday(words, i, today) ==
    IF i > Len(WeekdayOrder) THEN <<>>
    ELSE IF WeekdayOrder[i] \in words
         THEN <<today + ((WeekdayIndex(WeekdayOrder[i]) - Weekday(today)) % 7)>>
         ELSE FirstWeekday(words, i + 1, today)

\* parse_date with a weekday name taken as the next such day after today
parse_date_after_today(date_str, today) ==
    IF date_str = <<>> \/ Lower(date_str) \in {<<"not specified">>, <<"pending">>} THEN <<>>
    ELSE IF Strptime(date_str) # <<>> THEN Strptime(date_str)
    ELSE IF "tomorrow" \in DateWordsIn(Lower(date_str)) THEN <<today + 1>>
    ELSE IF "today" \in DateWordsIn(Lower(date_str)) THEN <<today>>
    ELSE IF FirstWeekday(DateWordsIn(Lower(date_str)), 1, today) = <<today>> THEN <<today + 7>>
    ELSE FirstWeekday(DateWordsIn(Lower(date_str)), 1, today)

parse_date(date_str, today) ==
    IF date_str = <<>> \/ Lower(date_str) \in {<<"not specified">>, <<"pending">>} THEN <<>>
    ELSE IF Strptime(date_str) # <<>> THEN Strptime(date_str)
    ELSE IF "tomorrow" \in DateWordsIn(Lower(date_str)) THEN <<today + 1>>
    ELSE IF "today" \in DateWordsIn(Lower(date_str)) THEN <<today>>
    ELSE FirstWeekday(DateWordsIn(Lower(date_str)), 1, today)

parse_time(time_str) ==
    IF time_str = <<>> \/ Lower(time_str) \in {<<"not specified">>, <<"pending">>} THEN <<>>
    ELSE IF ClockGroups(time_str) = <<>> THEN <<>>
    ELSE LET hour == ClockGroups(time_str)[1]
             minute == ClockGroups(time_str)[2]
             period == ClockGroups(time_str)[3]
             hour24 == IF period = "pm" /\ hour < 12 THEN hour + 12
                       ELSE IF period = "am" /\ hour = 12 THEN 0
                       ELSE hour
         IN  <<hour24 * 60 + minute>>

extract_people_count(people_str) ==
    IF people_str = <<>> THEN DefaultPeople
    ELSE IF FirstNumberIn(people_str) # <<>> THEN FirstNumberIn(people_str)[1]
    ELSE DefaultPeople

max_capacity(tour_type) ==
    CASE tour_type = <<"Dolphin Watching">> -> 8
      [] tour_type = <<"Snorkeling">> -> 6
      [] tour_type = <<"Dhow Cruise">> -> 10
      [] tour_type = <<"Fishing Trip">> -> 4
      [] OTHER -> DefaultCapacity

prices(tour_type) ==
    CASE tour_type = <<"Dolphin Watching">> -> 25
      [] tour_type = <<"Snorkeling">> -> 35
      [] tour_type = <<"Dhow Cruise">> -> 40
      [] tour_type = <<"Fishing Trip">> -> 50
      [] OTHER -> 30

\* calculate_price's reading of the party size: the integer that is left of
\* the string without '+' and ' people' when that is all digits, or 1
PricedPeople(people_count) ==
    CASE people_count = <<"1 people">> -> 1
      [] people_count = <<"2 people">> -> 2
      [] people_count = <<"3 people">> -> 3
      [] people_count = <<"4 people">> -> 4
      [] people_count = <<"5 people">> -> 5
      [] people_count = <<"6 people">> -> 6
      [] people_count = <<"8 people">> -> 8
      [] people_count = <<"2">> -> 2
      [] OTHER -> 1

\* calculate_price, in hundredths of a rial: base_price * people * 0.9 from 4
\* people on, base_price * people below
calculate_price(tour_type, people_count) ==
    LET base_price == prices(tour_type)
        people == PricedPeople(people_count)
    IN  IF people >= 4 THEN base_price * people * 90 ELSE base_price * people * 100

\* the rows check_availability counts for a request, and their people
Conflicts(row, tour_type, requested_date, requested_time, today) ==
    /\ row.tour_type = tour_type
    /\ Lower(row.intent) = <<"book tour">>
    /\ row.booking_date # <<>> /\ row.booking_time # <<>>
    /\ parse_date(row.booking_date, today) = requested_date
    /\ parse_time(row.booking_time) = requested_time

RECURSIVE conflicting_bookings(_, _, _, _, _)
conflicting_bookings(rows, tour_type, requested_date, requested_time, today) ==
    IF rows = <<>> THEN 0
    ELSE (IF Conflicts(Head(rows), tour_type, requested_date, requested_time, today)
          THEN extract_people_count(Head(rows).people_count) ELSE 0)
         + conflicting_bookings(Tail(rows), tour_type, requested_date, requested_time, today)

\* check_availability that refuses a request whose date it cannot read
check_availability_failing_closed(sheet_ok, rows, tour_type, booking_date, booking_time, people_count, today) ==
    IF ~sheet_ok THEN [ok |-> TRUE, msg |-> "no_data", left |-> 0, requested |-> 0]
    ELSE IF parse_date(booking_date, today) = <<>>
    THEN [ok |-> FALSE, msg |-> "no_date", left |-> 0, requested |-> 0]
    ELSE LET taken == conflicting_bookings(rows, tour_type, parse_date(booking_date, today),
                                           parse_time(booking_time), today)
             new_people == extract_people_count(people_count)
             capacity == max_capacity(tour_type)
         IN  IF taken + new_people > capacity
             THEN [ok |-> FALSE, msg |-> "fully_booked", left |-> capacity - taken,
                   requested |-> new_people]
             ELSE [ok |-> TRUE, msg |-> "available", left |-> capacity - (taken + new_people),
                   requested |-> new_people]

\* check_availability's pair (is_available, message); the message is kept as its
\* kind and the numbers it quotes
check_availability(sheet_ok, rows, tour_type, booking_date, booking_time, people_count, today) ==
    IF ~sheet_ok THEN [ok |-> TRUE, msg |-> "no_data", left |-> 0, requested |-> 0]
    ELSE IF parse_date(booking_date, today) = <<>>
    THEN [ok |-> TRUE, msg |-> "no_date", left |-> 0, requested |-> 0]
    ELSE LET taken == conflicting_bookings(rows, tour_type, parse_date(booking_date, today),
                                           parse_time(booking_time), today)
             new_people == extract_people_count(people_count)
             capacity == max_capacity(tour_type)
         IN  IF taken + new_people > capacity
             THEN [ok |-> FALSE, msg |-> "fully_booked", left |-> capacity - taken,
                   requested |-> new_people]
             ELSE [ok |-> TRUE, msg |-> "available", left |-> capacity - (taken + new_people),
                   requested |-> new_people]

(***************************************************************************)
(* Phone numbers.                                                          *)
(***************************************************************************)
\* the admin number of a server started without ADMIN_NUMBER in its environment
DefaultAdminNumber == "96878505509"

\* the digits of a number string (filter(str.isdigit, ...))
DigitsOf(number) ==
    CASE number = "96891234567" -> <<9, 6, 8, 9, 1, 2, 3, 4, 5, 6, 7>>
      [] number = "96892222222" -> <<9, 6, 8, 9, 2, 2, 2, 2, 2, 2, 2>>
      [] number = "96878505509" -> <<9, 6, 8, 7, 8, 5, 0, 5, 5, 0, 9>>
      [] number = "78505509" -> <<7, 8, 5, 0, 5, 5, 0, 9>>
      [] number = "447700900123" -> <<4, 4, 7, 7, 0, 0, 9, 0, 0, 1, 2, 3>>
      [] number = "447700900999" -> <<4, 4, 7, 7, 0, 0, 9, 0, 0, 9, 9, 9>>
      [] number = "91234567" -> <<9, 1, 2, 3, 4, 5, 6, 7>>
      [] number = "1234567" -> <<1, 2, 3, 4, 5, 6, 7>>
      [] OTHER -> <<>>

clean_oman_number(number) ==
    LET clean_number == DigitsOf(number)
    IN  IF clean_number = <<>> THEN <<>>
        ELSE IF Len(clean_number) = 8 /\ clean_number[1] \in {9, 7, 8}
        THEN <<<<9, 6, 8>> \o clean_number>>
        ELSE IF Len(clean_number) \in {11, 12} /\ SubSeq(clean_number, 1, 3) = <<9, 6, 8>>
        THEN <<clean_number>>
        ELSE <<>>

\* handle_admin_command's authorisation test
IsAdmin(phone_number) == clean_oman_number(phone_number) = clean_oman_number(ADMIN_NUMBER)

(***************************************************************************)
(* Outbound messages.  A message is kept as its recipient, its kind and    *)
(* whether it reached the recipient.                                       *)
(***************************************************************************)
\* the POST reached the API: not for a number that cannot be normalised, nor
\* when the API rejects the request
Delivered(to, net) == clean_oman_number(to) # <<>> /\ net # "rejected"

\* send_whatsapp_message's return value: True only for a 200 whose body parses
send_whatsapp_message(to, net) == clean_oman_number(to) # <<>> /\ net = "ok"

\* what a message quotes from check_availability, if anything
NoInfo == [ok |-> TRUE, msg |-> "none", left |-> 0, requested |-> 0]

Msg(to, kind, info, net) ==
    [to |-> to, kind |-> kind, info |-> info, delivered |-> Delivered(to, net)]

NoList == [kind |-> "none", tail |-> <<>>]

\* the row ids' actions of each list message
Rows(kind) ==
    CASE kind = "tour" -> {"book_dolphin", "book_snorkeling", "book_dhow", "book_fishing"}
      [] kind = "people" -> {"people_1", "people_2", "people_3", "people_4", "people_5",
                             "people_6", "people_custom"}
      [] kind = "time" -> {"time_8am", "time_9am", "time_10am", "time_2pm", "time_4pm",
                           "time_6pm"}
      [] kind = "inquiry_tour" -> {"inquiry_dolphin", "inquiry_snorkeling", "inquiry_dhow",
                                   "inquiry_fishing", "inquiry_unsure"}
      [] kind = "inquiry_people" -> {"inquiry_people_1", "inquiry_people_2",
                                     "inquiry_people_3", "inquiry_people_4",
                                     "inquiry_people_5", "inquiry_people_6",
                                     "inquiry_people_custom"}
      [] kind = "inquiry_time" -> {"inquiry_time_8am", "inquiry_time_9am",
                                   "inquiry_time_10am", "inquiry_time_2pm",
                                   "inquiry_time_4pm", "inquiry_time_6pm"}
      [] OTHER -> {}

\* the list message a handler's prompt carries, if any
ListOf(kind, tail) == [kind |-> kind, tail |-> tail]

(***************************************************************************)
(* Sessions.                                                               *)
(***************************************************************************)
SessionOf(sessions, phone) == Get(sessions, phone, NoSession)

\* dict.update on the sender's session, guarded by "if to in booking_sessions"
UpdateSession(sessions, to, patch) ==
    IF to \in DOMAIN sessions THEN Put(sessions, to, Update(sessions[to], patch)) ELSE sessions

\* a clearing that leaves the session in the map
ClearSession_keeping(sessions, to) == sessions

\* "if to in booking_sessions: del booking_sessions[to]"
ClearSession(sessions, to) == IF to \in DOMAIN sessions THEN Del(sessions, to) ELSE sessions

\* what a handler did: the session map it leaves, the message it sent, the list
\* that message carries, and whether it raised
Done(sessions, kind, list) ==
    [sessions |-> sessions, kind |-> kind, list |-> list, info |-> NoInfo, raised |-> FALSE]

Raised(sessions) ==
    [sessions |-> sessions, kind |-> "none", list |-> NoList, info |-> NoInfo, raised |-> TRUE]

\* start_booking_flow that updates the session it finds
start_booking_flow_updating(sessions, to) ==
    Done(Put(sessions, to,
             Update(SessionOf(sessions, to), [step |-> "awaiting_name", flow |-> "booking"])),
         "ask_name", NoList)

start_booking_flow(sessions, to) ==
    Done(Put(ClearSession(sessions, to), to, [step |-> "awaiting_name", flow |-> "booking"]),
         "ask_name", NoList)

\* start_inquiry_flow that replaces the whole session map
start_inquiry_flow_resetting(sessions, to) ==
    Done(Put(<<>>, to,
             [step |-> "awaiting_inquiry_tour", flow |-> "inquiry", inquiry_data |-> <<>>]),
         "inquiry_intro", NoList)

start_inquiry_flow(sessions, to) ==
    Done(Put(ClearSession(sessions, to), to,
             [step |-> "awaiting_inquiry_tour", flow |-> "inquiry", inquiry_data |-> <<>>]),
         "inquiry_intro", NoList)

ask_for_contact(sessions, to, name) ==
    Done(UpdateSession(sessions, to, [step |-> "awaiting_contact", name |-> name]),
         "ask_contact", NoList)

ask_for_tour_type(sessions, to, name, contact) ==
    Done(UpdateSession(sessions, to,
                       [step |-> "awaiting_tour_type", name |-> name, contact |-> contact]),
         "tour_list", ListOf("tour", name \o contact))

ask_for_people_count(sessions, to, name, contact, tour_type) ==
    Done(UpdateSession(sessions, to,
                       [step |-> "awaiting_people_count", name |-> name, contact |-> contact,
                        tour_type |-> tour_type]),
         "people_list", ListOf("people", name \o contact \o tour_type))

ask_for_custom_people(sessions, to, name, contact, tour_type) ==
    Done(UpdateSession(sessions, to, [step |-> "awaiting_custom_people"]),
         "ask_custom_people", NoList)

\* ask_for_date that sends a 'Custom Number' selection to ask_for_custom_people
ask_for_date_asking_custom(sessions, to, name, contact, tour_type, people_count) ==
    IF people_count = <<"custom people">>
    THEN ask_for_custom_people(sessions, to, name, contact, tour_type)
    ELSE Done(UpdateSession(sessions, to,
                            [step |-> "awaiting_date", name |-> name, contact |-> contact,
                             tour_type |-> tour_type, people_count |-> people_count]),
              "ask_date", NoList)

ask_for_date(sessions, to, name, contact, tour_type, people_count) ==
    Done(UpdateSession(sessions, to,
                       [step |-> "awaiting_date", name |-> name, contact |-> contact,
                        tour_type |-> tour_type, people_count |-> people_count]),
         "ask_date", NoList)

ask_for_time(sessions, to, name, contact, tour_type, people_count, booking_date) ==
    Done(UpdateSession(sessions, to,
                       [step |-> "awaiting_time", name |-> name, contact |-> contact,
                        tour_type |-> tour_type, people_count |-> people_count,
                        booking_date |-> booking_date]),
         "time_list",
         ListOf("time", name \o contact \o tour_type \o people_count \o booking_date))

(***************************************************************************)
(* The inquiry flow's prompts.  A handler that indexes a key the session   *)
(* does not have raises KeyError before it changes anything.               *)
(***************************************************************************)
HasInquiryData(sessions, to) == "inquiry_data" \in DOMAIN sessions[to]

\* booking_sessions[to]['inquiry_data'][key] = value; booking_sessions[to]['step'] = step
SetInquiry(sessions, to, key, value, step) ==
    Put(sessions, to,
        Update(sessions[to],
               [inquiry_data |-> Put(sessions[to].inquiry_data, key, value), step |-> step]))

ask_for_inquiry_tour_type(sessions, to) ==
    Done(sessions, "inquiry_tour_list", ListOf("inquiry_tour", Seg(to)))

ask_for_inquiry_people_count(sessions, to, tour_type) ==
    IF to \in DOMAIN sessions /\ ~HasInquiryData(sessions, to) THEN Raised(sessions)
    ELSE Done(IF to \in DOMAIN sessions
              THEN SetInquiry(sessions, to, "tour_type", tour_type, "awaiting_inquiry_people")
              ELSE sessions,
              "inquiry_people_list", ListOf("inquiry_people", Seg(to) \o tour_type))

ask_for_custom_people_count(sessions, to, tour_type) ==
    Done(UpdateSession(sessions, to, [step |-> "awaiting_inquiry_custom_people"]),
         "ask_inquiry_custom_people", NoList)

ask_for_inquiry_date(sessions, to, tour_type, people_count) ==
    IF to \in DOMAIN sessions /\ ~HasInquiryData(sessions, to) THEN Raised(sessions)
    ELSE Done(IF to \in DOMAIN sessions
              THEN SetInquiry(sessions, to, "people_count", people_count, "awaiting_inquiry_date")
              ELSE sessions,
              "ask_inquiry_date", NoList)

ask_for_inquiry_time(sessions, to, tour_type, people_count, booking_date) ==
    IF to \in DOMAIN sessions /\ ~HasInquiryData(sessions, to) THEN Raised(sessions)
    ELSE Done(IF to \in DOMAIN sessions
              THEN SetInquiry(sessions, to, "booking_date", booking_date, "awaiting_inquiry_time")
              ELSE sessions,
              "inquiry_time_list",
              ListOf("inquiry_time", Seg(to) \o tour_type \o people_count \o booking_date))

ask_for_inquiry_questions(sessions, to, tour_type, people_count, booking_date, booking_time, sheet_ok, rows, today) ==
    IF to \in DOMAIN sessions /\ ~HasInquiryData(sessions, to) THEN Raised(sessions)
    ELSE [sessions |-> IF to \in DOMAIN sessions
                       THEN SetInquiry(sessions, to, "booking_time", booking_time,
                                       "awaiting_inquiry_questions")
                       ELSE sessions,
          kind |-> "inquiry_summary",
          list |-> NoList,
          info |-> check_availability(sheet_ok, rows, tour_type, booking_date, booking_time,
                                      people_count, today),
          raised |-> FALSE]

(***************************************************************************)
(* handle_interaction's tables.                                            *)
(***************************************************************************)
\* the prefixes handle_interaction tests (str.startswith) that an action has
PrefixesOf(action) ==
    CASE action \in {"book_dolphin", "book_snorkeling", "book_dhow", "book_fishing"}
            -> {"book_"}
      [] action \in {"people_1", "people_2", "people_3", "people_4", "people_5", "people_6",
                     "people_custom"} -> {"people_"}
      [] action \in {"time_8am", "time_9am", "time_10am", "time_2pm", "time_4pm", "time_6pm",
                     "time_7pm"} -> {"time_"}
      [] action \in {"inquiry_dolphin", "inquiry_snorkeling", "inquiry_dhow", "inquiry_fishing",
                     "inquiry_unsure"} -> {"inquiry_", action}
      [] action \in {"inquiry_people_1", "inquiry_people_2", "inquiry_people_3",
                     "inquiry_people_4", "inquiry_people_5", "inquiry_people_6",
                     "inquiry_people_custom"} -> {"inquiry_", "inquiry_people_"}
      [] action \in {"inquiry_time_8am", "inquiry_time_9am", "inquiry_time_10am",
                     "inquiry_time_2pm", "inquiry_time_4pm", "inquiry_time_6pm"}
            -> {"inquiry_", "inquiry_time_"}
      [] OTHER -> {}

tour_type_map(action) ==
    CASE action = "book_dolphin" -> <<"Dolphin Watching">>
      [] action = "book_snorkeling" -> <<"Snorkeling">>
      [] action = "book_dhow" -> <<"Dhow Cruise">>
      [] action = "book_fishing" -> <<"Fishing Trip">>
      [] OTHER -> <<None>>

time_map(action) ==
    CASE action \in {"time_8am", "inquiry_time_8am"} -> <<"8:00 AM">>
      [] action \in {"time_9am", "inquiry_time_9am"} -> <<"9:00 AM">>
      [] action \in {"time_10am", "inquiry_time_10am"} -> <<"10:00 AM">>
      [] action \in {"time_2pm", "inquiry_time_2pm"} -> <<"2:00 PM">>
      [] action \in {"time_4pm", "inquiry_time_4pm"} -> <<"4:00 PM">>
      [] action \in {"time_6pm", "inquiry_time_6pm"} -> <<"6:00 PM">>
      [] OTHER -> <<"Not specified">>

\* action.replace('people_', '') + ' people'
people_label(action) ==
    CASE action \in {"people_1", "inquiry_people_1"} -> <<"1 people">>
      [] action \in {"people_2", "inquiry_people_2"} -> <<"2 people">>
      [] action \in {"people_3", "inquiry_people_3"} -> <<"3 people">>
      [] action \in {"people_4", "inquiry_people_4"} -> <<"4 people">>
      [] action \in {"people_5", "inquiry_people_5"} -> <<"5 people">>
      [] action \in {"people_6", "inquiry_people_6"} -> <<"6 people">>
      [] action \in {"people_custom", "inquiry_people_custom"} -> <<"custom people">>

inquiry_tour(action) ==
    CASE action = "inquiry_dolphin" -> <<"Dolphin Watching">>
      [] action = "inquiry_snorkeling" -> <<"Snorkeling">>
      [] action = "inquiry_dhow" -> <<"Dhow Cruise">>
      [] action = "inquiry_fishing" -> <<"Fishing Trip">>

\* the static menu
menu_response(sessions, interaction_id, phone_number) ==
    CASE interaction_id = <<"view_options">> -> Done(sessions, "main_options_list", NoList)
      [] interaction_id \in {<<"dolphin_tour">>, <<"snorkeling">>, <<"dhow_cruise">>,
                             <<"fishing">>, <<"pricing">>, <<"location">>, <<"schedule">>,
                             <<"contact">>} -> Done(sessions, "info", NoList)
      [] interaction_id = <<"book_now">> -> Done(sessions, "booking_options_list", NoList)
      [] interaction_id = <<"book_tour">> -> start_booking_flow(sessions, phone_number)
      [] interaction_id = <<"inquire_tour">> -> start_inquiry_flow(sessions, phone_number)
      [] OTHER -> Done(sessions, "sorry", NoList)

\* the time selection of the booking flow, which calls complete_booking
IsTimeSelection(interaction_id) ==
    Len(interaction_id) >= 6 /\ "time_" \in PrefixesOf(interaction_id[1])

\* handle_interaction for every selection but the booking flow's time selection
handle_interaction(sessions, interaction_id, phone_number, sheet_ok, rows, today) ==
    LET parts == interaction_id
        action == parts[1]
        pre == PrefixesOf(action)
        P(i) == Seg(parts[i + 1])
    IN  IF Len(parts) < 2 THEN menu_response(sessions, interaction_id, phone_number)
        ELSE IF "book_" \in pre /\ Len(parts) >= 3
        THEN ask_for_people_count(sessions, phone_number, P(1), P(2), tour_type_map(action))
        ELSE IF "people_" \in pre /\ Len(parts) >= 4
        THEN ask_for_date(sessions, phone_number, P(1), P(2), P(3), people_label(action))
        ELSE IF "inquiry_" \in pre /\ Len(parts) >= 2
        THEN IF pre \cap {"inquiry_dolphin", "inquiry_snorkeling", "inquiry_dhow",
                          "inquiry_fishing"} # {}
             THEN ask_for_inquiry_people_count(sessions, phone_number, inquiry_tour(action))
             ELSE IF "inquiry_unsure" \in pre
             THEN Done(sessions, "recommendations", NoList)
             ELSE IF "inquiry_people_" \in pre /\ Len(parts) >= 3
             THEN IF action = "inquiry_people_custom"
                  THEN ask_for_custom_people_count(sessions, phone_number, P(2))
                  ELSE ask_for_inquiry_date(sessions, phone_number, P(2), people_label(action))
             ELSE IF "inquiry_time_" \in pre /\ Len(parts) >= 6
             THEN ask_for_inquiry_questions(sessions, phone_number, P(2), P(3), P(4),
                                            time_map(action), sheet_ok, rows, today)
             ELSE menu_response(sessions, interaction_id, phone_number)
        ELSE menu_response(sessions, interaction_id, phone_number)

(***************************************************************************)
(* The webhook's text branch.                                              *)
(***************************************************************************)
\* the keyword groups of handle_keyword_questions with a word in a lowercase segment
KeywordsInSeg(str) ==
    CASE str = "where is it" -> {"location"}
      [] str = "how much" -> {"price"}
      [] str = "what time" -> {"schedule"}
      [] str = "phone number" -> {"contact"}
      [] OTHER -> {}

KeywordsIn(text) == UNION {KeywordsInSeg(text[i]) : i \in DOMAIN text}

\* handle_keyword_questions without its branch for the price words
handle_keyword_questions_no_price(text) == KeywordsIn(Lower(text)) \ {"price"} # {}

\* handle_keyword_questions: whether it answered
handle_keyword_questions(text) == KeywordsIn(Lower(text)) # {}

\* the greeting test without lower()
IsGreetingAsTyped(text) == text \in {<<"hi">>, <<"hello">>, <<"hey">>, <<"start">>, <<"menu">>}

IsGreeting(text) == Lower(text) \in {<<"hi">>, <<"hello">>, <<"hey">>, <<"start">>, <<"menu">>}

Status(result, status) == [result |-> result, status |-> status]

\* the lead row add_lead_to_sheet appends
LeadRow(timestamp, name, contact, intent, whatsapp_id, tour_type, booking_date, booking_time, people_count, notes) ==
    [timestamp |-> timestamp, name |-> name, contact |-> contact, whatsapp_id |-> whatsapp_id,
     intent |-> intent, tour_type |-> tour_type, booking_date |-> booking_date,
     booking_time |-> booking_time, people_count |-> people_count, notes |-> notes]

\* complete_inquiry's notes column
inquiry_notes(questions) ==
    IF questions # <<"">> /\ Lower(questions) # <<"no questions">>
    THEN <<"Inquiry questions:">> \o questions
    ELSE <<"No specific questions">>

\* the text branch for a sender with a session, up to complete_inquiry:
\* the handler's result and the response status
text_step(sessions, phone_number, text) ==
    LET session == SessionOf(sessions, phone_number)
        step == Get(session, "step", None)
        F(k) == Get(session, k, <<"">>)
        I(k) == Get(session.inquiry_data, k, <<"">>)
    IN  IF step = "awaiting_name"
        THEN Status(ask_for_contact(sessions, phone_number, text), "name_received")
        ELSE IF step = "awaiting_contact"
        THEN Status(ask_for_tour_type(sessions, phone_number, F("name"), text),
                    "contact_received")
        ELSE IF step = "awaiting_date"
        THEN Status(ask_for_time(sessions, phone_number, F("name"), F("contact"),
                                 F("tour_type"), F("people_count"), text), "date_received")
        ELSE IF Get(session, "flow", None) = "inquiry"
        THEN IF step = "awaiting_inquiry_tour"
             THEN Status(ask_for_inquiry_tour_type(sessions, phone_number),
                         "inquiry_tour_prompted")
             ELSE IF step = "awaiting_inquiry_custom_people"
             THEN Status(ask_for_inquiry_date(
                             Put(sessions, phone_number,
                                 Update(session, [inquiry_data |->
                                     Put(session.inquiry_data, "people_count", text)])),
                             phone_number, I("tour_type"), text),
                         "inquiry_custom_people_received")
             ELSE IF step = "awaiting_inquiry_date"
             THEN Status(ask_for_inquiry_time(sessions, phone_number, I("tour_type"),
                                              I("people_count"), text),
                         "inquiry_date_received")
             ELSE Status(Done(sessions, "none", NoList), "unhandled_message_type")
        ELSE IF step = "awaiting_custom_people"
        THEN Status(ask_for_date(Put(sessions, phone_number,
                                     Update(session, [people_count |-> text])),
                                 phone_number, F("name"), F("contact"), F("tour_type"), text),
                    "custom_people_received")
        ELSE Status(Done(sessions, "none", NoList), "unhandled_message_type")

\* the inquiry flow's last text, which calls complete_inquiry
IsInquiryCompletion(sessions, phone_number) ==
    LET session == SessionOf(sessions, phone_number)
    IN  /\ session # NoSession
        /\ Get(session, "step", None) \notin {"awaiting_name", "awaiting_contact", "awaiting_date"}
        /\ Get(session, "flow", None) = "inquiry"
        /\ Get(session, "step", None) = "awaiting_inquiry_questions"

(***************************************************************************)
(* Persisting a lead and scheduling its reminder.                          *)
(***************************************************************************)
\* schedule_reminder that stores the job without resolving the date
schedule_reminder_unresolved(sessions, booking_data, t) ==
    LET phone == booking_data.whatsapp_id
        held == IF phone \in DOMAIN sessions THEN sessions[phone] ELSE <<>>
    IN  Put(sessions, phone,
            Update(held, [reminder_scheduled |-> TRUE,
                          reminder_time |-> t + ReminderDelay,
                          booking_details |-> booking_data]))

\* schedule_reminder: the session map it leaves
schedule_reminder(sessions, booking_data, t) ==
    IF parse_date(booking_data.booking_date, Today(t)) = <<>> THEN sessions
    ELSE LET phone == booking_data.whatsapp_id
             held == IF phone \in DOMAIN sessions THEN sessions[phone] ELSE <<>>
         IN  Put(sessions, phone,
                 Update(held, [reminder_scheduled |-> TRUE,
                               reminder_time |-> t + ReminderDelay,
                               booking_details |-> booking_data]))

\* whether add_lead_to_sheet goes on to schedule_reminder
WantsReminder(intent, booking_date) ==
    Lower(intent) = <<"book tour">> /\ Lower(booking_date) \notin {<<"not specified">>, <<"pending">>}

\* add_lead_to_sheet that reports a row it could not write as written
add_lead_to_sheet_reporting_success(rows, sessions, t, append_ok, name, contact, intent, whatsapp_id, tour_type, booking_date, booking_time, people_count, notes) ==
    IF ~append_ok THEN [rows |-> rows, sessions |-> sessions, success |-> TRUE]
    ELSE [rows |-> Append(rows, LeadRow(t, name, contact, intent, whatsapp_id, tour_type,
                                        booking_date, booking_time, people_count, notes)),
          sessions |-> IF WantsReminder(intent, booking_date)
                       THEN schedule_reminder(sessions,
                                [name |-> name, whatsapp_id |-> whatsapp_id,
                                 tour_type |-> tour_type, booking_date |-> booking_date,
                                 booking_time |-> booking_time, people_count |-> people_count], t)
                       ELSE sessions,
          success |-> TRUE]

\* add_lead_to_sheet: the rows, the session map and the value it returns;
\* append_ok is whether sheet.append_row returned
add_lead_to_sheet(rows, sessions, t, append_ok, name, contact, intent, whatsapp_id, tour_type, booking_date, booking_time, people_count, notes) ==
    IF ~append_ok THEN [rows |-> rows, sessions |-> sessions, success |-> FALSE]
    ELSE [rows |-> Append(rows, LeadRow(t, name, contact, intent, whatsapp_id, tour_type,
                                        booking_date, booking_time, people_count, notes)),
          sessions |-> IF WantsReminder(intent, booking_date)
                       THEN schedule_reminder(sessions,
                                [name |-> name, whatsapp_id |-> whatsapp_id,
                                 tour_type |-> tour_type, booking_date |-> booking_date,
                                 booking_time |-> booking_time, people_count |-> people_count], t)
                       ELSE sessions,
          success |-> TRUE]

\* a reminder job is held in the session of the booking's sender
HasJob(sessions, phone) ==
    phone \in DOMAIN sessions /\ Get(sessions[phone], "reminder_scheduled", FALSE)

(***************************************************************************)
(* The admin commands.                                                     *)
(***************************************************************************)
\* get_upcoming_bookings: the sheet's rows of booked tours dated today or later
get_upcoming_bookings(sheet_ok, rows, today) ==
    IF ~sheet_ok THEN <<>>
    ELSE SelectSeq(rows, LAMBDA record :
             /\ Lower(record.intent) = <<"book tour">>
             /\ record.booking_date \notin {<<>>, <<"">>}
             /\ Lower(record.booking_date) \notin {<<"not specified">>, <<"pending">>}
             /\ parse_date(record.booking_date, today) # <<>>
             /\ parse_date(record.booking_date, today)[1] >= today)

\* find_booking_by_phone: the first upcoming booking of the number, if any
find_booking_by_phone(phone_number, sheet_ok, rows, today) ==
    LET upcoming == SelectSeq(get_upcoming_bookings(sheet_ok, rows, today), LAMBDA booking :
                        clean_oman_number(booking.whatsapp_id) = clean_oman_number(phone_number))
    IN  IF upcoming = <<>> THEN <<>> ELSE <<Head(upcoming)>>

\* send_manual_reminder: the reminders it sends and the text it returns;
\* target_phone is <<>> for the command without a number
send_manual_reminder(target_phone, sheet_ok, rows, today, net) ==
    IF target_phone = <<>>
    THEN LET upcoming == SelectSeq(get_upcoming_bookings(sheet_ok, rows, today),
                                   LAMBDA booking : booking.whatsapp_id # "")
         IN  [sent |-> [i \in DOMAIN upcoming |->
                           Msg(upcoming[i].whatsapp_id, "reminder", NoInfo, net)],
              result |-> [text |-> "sent_reminders",
                          count |-> Len(SelectSeq(upcoming, LAMBDA booking :
                                        send_whatsapp_message(booking.whatsapp_id, net)))]]
    ELSE LET booking == find_booking_by_phone(target_phone[1], sheet_ok, rows, today)
         IN  IF booking = <<>>
             THEN [sent |-> <<>>, result |-> [text |-> "no_upcoming_booking", count |-> 0]]
             ELSE [sent |-> <<Msg(target_phone[1], "reminder", NoInfo, net)>>,
                   result |-> IF send_whatsapp_message(target_phone[1], net)
                              THEN [text |-> "reminder_sent", count |-> 1]
                              ELSE [text |-> "reminder_failed", count |-> 0]]

\* get_booking_stats: the figures of the statistics message
get_booking_stats(sheet_ok, rows, sessions, today) ==
    IF ~sheet_ok THEN [text |-> "sheets_not_available", count |-> 0]
    ELSE LET booked == SelectSeq(rows, LAMBDA record : Lower(record.intent) = <<"book tour">>)
         IN  [text |-> "stats",
              count |-> Len(booked),
              upcoming |-> Len(SelectSeq(booked, LAMBDA record :
                               /\ parse_date(record.booking_date, today) # <<>>
                               /\ parse_date(record.booking_date, today)[1] >= today)),
              scheduled |-> Cardinality({p \in DOMAIN sessions :
                                Get(sessions[p], "reminder_scheduled", FALSE)})]

\* command.replace('reminder ', '').strip() of a command that starts with 'reminder '
ReminderTarget(command) ==
    CASE command = <<"reminder 91234567">> -> <<"91234567">>
      [] command = <<"reminder 1234567">> -> <<"1234567">>
      [] OTHER -> <<>>

\* handle_admin_command that takes only the texts it knows as commands
handle_admin_command_known_only(phone_number, text, sheet_ok, rows, sessions, today, net) ==
    LET command == Lower(text)
        NoSend(result) == [is_admin_command |-> TRUE, sent |-> <<>>, result |-> result]
        Manual(target) == [is_admin_command |-> TRUE] @@
                          send_manual_reminder(target, sheet_ok, rows, today, net)
    IN  IF clean_oman_number(phone_number) # clean_oman_number(ADMIN_NUMBER)
        THEN [is_admin_command |-> FALSE, sent |-> <<>>,
              result |-> [text |-> "not_authorized", count |-> 0]]
        ELSE IF command = <<"reminder">> THEN Manual(<<>>)
        ELSE IF ReminderTarget(command) # <<>> THEN Manual(ReminderTarget(command))
        ELSE IF command = <<"stats">>
        THEN NoSend(get_booking_stats(sheet_ok, rows, sessions, today))
        ELSE IF command = <<"help">> THEN NoSend([text |-> "help", count |-> 0])
        ELSE [is_admin_command |-> FALSE, sent |-> <<>>,
              result |-> [text |-> "unknown_command", count |-> 0]]

\* handle_admin_command: whether the text was taken as an admin command, the
\* reminders sent and the text to answer with
handle_admin_command(phone_number, text, sheet_ok, rows, sessions, today, net) ==
    LET command == Lower(text)
        NoSend(result) == [is_admin_command |-> TRUE, sent |-> <<>>, result |-> result]
        Manual(target) == [is_admin_command |-> TRUE] @@
                          send_manual_reminder(target, sheet_ok, rows, today, net)
    IN  IF clean_oman_number(phone_number) # clean_oman_number(ADMIN_NUMBER)
        THEN [is_admin_command |-> FALSE, sent |-> <<>>,
              result |-> [text |-> "not_authorized", count |-> 0]]
        ELSE IF command = <<"reminder">> THEN Manual(<<>>)
        ELSE IF ReminderTarget(command) # <<>> THEN Manual(ReminderTarget(command))
        ELSE IF command = <<"stats">>
        THEN NoSend(get_booking_stats(sheet_ok, rows, sessions, today))
        ELSE IF command = <<"help">> THEN NoSend([text |-> "help", count |-> 0])
        ELSE NoSend([text |-> "unknown_command", count |-> 0])

(***************************************************************************)
(* The state machine.                                                      *)
(***************************************************************************)
NoCall == <<>>

NoSerial == <<>>

NoEvent == [from |-> "", type |-> "none", body |-> <<>>, dup |-> FALSE, status |-> "none"]

NoneApplied == [fn |-> "none"]

\* the server after start-up, whatever the clock shows
Started ==
    /\ booking_sessions = <<>>
    /\ sheet_rows = <<>>
    /\ inflight = [p \in Senders |-> NoCall]
    /\ last_list = [p \in Senders |-> NoList]
    /\ last = NoEvent
    /\ outbox = <<>>
    /\ received = [p \in Senders |-> 0]
    /\ script = 0
    /\ serial = [p \in Senders |-> NoSerial]
    /\ applied = NoneApplied

Init == Started /\ now = StartNow /\ ADMIN_NUMBER = DefaultAdminNumber

Event(from, type, body, dup, status) ==
    [from |-> from, type |-> type, body |-> body, dup |-> dup, status |-> status]

\* the end-to-end conversation: 'hi', select book, the name, the contact, select
\* Dolphin Watching, '2', 'tomorrow', select 9:00 AM
Script ==
    << [type |-> "text", key |-> <<"hi">>],
       [type |-> "list_reply", key |-> <<"book_tour">>],
       [type |-> "text", key |-> <<"Ahmed Al Harthy">>],
       [type |-> "text", key |-> <<"91234567">>],
       [type |-> "list_reply", key |-> <<"book_dolphin">>],
       [type |-> "text", key |-> <<"2">>],
       [type |-> "text", key |-> <<"tomorrow">>],
       [type |-> "list_reply", key |-> <<"time_9am">>] >>

OffScript == 0 - 1

\* the position in Script after one more inbound event: the events from the start
\* are Script's first events, or the conversation has left it
Follow(position, type, body, dup) ==
    IF /\ position \in 0 .. Len(Script) - 1
       /\ ~dup
       /\ type = Script[position + 1].type
       /\ (IF type = "text" THEN body ELSE <<Head(body)>>) = Script[position + 1].key
    THEN position + 1
    ELSE OffScript

\* the list the sender holds after a handler's message
Receive(list, phone, result, net) ==
    IF result.list # NoList /\ Delivered(phone, net) THEN Put(list, phone, result.list) ELSE list

\* the messages of a webhook that sends the welcome whenever no step took the text
Sent_with_fallback(phone, result, net) ==
    IF result.raised THEN <<>>
    ELSE IF result.kind = "none" THEN <<Msg(phone, "welcome", NoInfo, net)>>
    ELSE <<Msg(phone, result.kind, result.info, net)>>

\* the messages a handler's result sent
Sent(phone, result, net) ==
    IF result.raised \/ result.kind = "none" THEN <<>>
    ELSE <<Msg(phone, result.kind, result.info, net)>>

\* the webhook on a text message that handle_admin_command takes as a command
WebhookAdmin(phone_number, text, dup, net, sheet_ok) ==
    LET command == handle_admin_command(phone_number, text, sheet_ok, sheet_rows,
                                        booking_sessions, Today(now), net)
    IN  /\ command.is_admin_command
        /\ outbox' = command.sent \o <<Msg(phone_number, "admin_result", command.result, net)>>
        /\ last' = Event(phone_number, "text", text, dup, "admin_command_handled")
        /\ script' = Follow(script, "text", text, dup)
        /\ UNCHANGED <<booking_sessions, sheet_rows, now, inflight, last_list, received,
                       applied, ADMIN_NUMBER>>

\* the webhook on a text message that handle_admin_command does not take
WebhookText(phone_number, text, dup, net, append_ok) ==
    /\ ~handle_admin_command(phone_number, text, TRUE, sheet_rows, booking_sessions,
                             Today(now), net).is_admin_command
    /\ LET session == SessionOf(booking_sessions, phone_number)
       IN  IF session = NoSession
           THEN /\ outbox' = <<Msg(phone_number,
                                   IF handle_keyword_questions(text) THEN "faq" ELSE "welcome",
                                   NoInfo, net)>>
                /\ last' = Event(phone_number, "text", text, dup,
                                 IF handle_keyword_questions(text) THEN "keyword_answered"
                                 ELSE IF IsGreeting(text) THEN "welcome_sent"
                                 ELSE "fallback_welcome_sent")
                /\ UNCHANGED <<booking_sessions, sheet_rows, last_list>>
           ELSE IF IsInquiryCompletion(booking_sessions, phone_number)
           THEN LET data == session.inquiry_data
                    I(k) == Get(data, k, <<"">>)
                    lead == add_lead_to_sheet(sheet_rows, booking_sessions, now, append_ok,
                                <<"Inquiry Customer">>, Seg(phone_number),
                                <<"Detailed Tour Inquiry">>, phone_number, I("tour_type"),
                                I("booking_date"), I("booking_time"), I("people_count"),
                                inquiry_notes(text))
                IN  /\ Len(lead.rows) <= MaxRows
                    /\ sheet_rows' = lead.rows
                    /\ booking_sessions' = ClearSession(lead.sessions, phone_number)
                    /\ outbox' = <<Msg(phone_number, "inquiry_received", NoInfo, net)>>
                    /\ last' = Event(phone_number, "text", text, dup, "inquiry_completed")
                    /\ UNCHANGED last_list
           ELSE LET r == text_step(booking_sessions, phone_number, text)
                IN  /\ booking_sessions' = r.result.sessions
                    /\ outbox' = Sent(phone_number, r.result, net)
                    /\ last_list' = Receive(last_list, phone_number, r.result, net)
                    /\ last' = Event(phone_number, "text", text, dup,
                                     IF r.result.raised THEN "error" ELSE r.status)
                    /\ UNCHANGED sheet_rows
    /\ script' = Follow(script, "text", text, dup)
    /\ UNCHANGED <<now, inflight, received, applied, ADMIN_NUMBER>>

\* a text message handled while no other event of the sender is being handled
\* a webhook that leaves the session alone when its message was not delivered
TextMessage_when_delivered(phone_number, text, dup, net, append_ok) ==
    /\ inflight[phone_number] = NoCall
    /\ IF Delivered(phone_number, net)
       THEN WebhookText(phone_number, text, dup, net, append_ok)
       ELSE /\ ~IsAdmin(phone_number)
            /\ last' = Event(phone_number, "text", text, dup, "error")
            /\ outbox' = <<>>
            /\ UNCHANGED <<booking_sessions, sheet_rows, last_list, now, inflight, received,
                           script, applied, ADMIN_NUMBER>>
    /\ serial' = [serial EXCEPT ![phone_number] = NoSerial]

TextMessage(phone_number, text, dup, net, append_ok) ==
    /\ inflight[phone_number] = NoCall
    /\ WebhookText(phone_number, text, dup, net, append_ok)
    /\ serial' = [serial EXCEPT ![phone_number] = NoSerial]

\* the webhook on a list or button selection, up to the return of
\* complete_booking's add_lead_to_sheet for a time selection of the booking flow
WebhookSelection(phone_number, type, interaction_id, dup, net, append_ok) ==
    /\ IF type = "button_reply" /\ interaction_id = <<"view_options">>
       THEN /\ outbox' = <<Msg(phone_number, "main_options_list", NoInfo, net)>>
            /\ last' = Event(phone_number, type, interaction_id, dup, "view_options_sent")
            /\ UNCHANGED <<booking_sessions, sheet_rows, last_list, inflight, received>>
       ELSE IF IsTimeSelection(interaction_id)
       THEN LET parts == interaction_id
                P(i) == Seg(parts[i + 1])
                lead == add_lead_to_sheet(sheet_rows, booking_sessions, now, append_ok,
                            P(1), P(2), <<"Book Tour">>, phone_number, P(3), P(5),
                            time_map(parts[1]), P(4), <<"">>)
            IN  /\ Len(lead.rows) <= MaxRows
                /\ sheet_rows' = lead.rows
                /\ booking_sessions' = lead.sessions
                /\ inflight' = [inflight EXCEPT ![phone_number] =
                                   [name |-> P(1), contact |-> P(2), tour_type |-> P(3),
                                    people_count |-> P(4), booking_date |-> P(5),
                                    booking_time |-> time_map(parts[1]),
                                    success |-> lead.success]]
                /\ received' = IF HasJob(lead.sessions, phone_number)
                               THEN [received EXCEPT ![phone_number] = 0] ELSE received
                /\ outbox' = <<>>
                /\ last' = Event(phone_number, type, interaction_id, dup, "in_complete_booking")
                /\ UNCHANGED last_list
       ELSE LET r == handle_interaction(booking_sessions, interaction_id, phone_number,
                                        TRUE, sheet_rows, Today(now))
            IN  /\ booking_sessions' = r.sessions
                /\ outbox' = Sent(phone_number, r, net)
                /\ last_list' = Receive(last_list, phone_number, r, net)
                /\ last' = Event(phone_number, type, interaction_id, dup,
                                 IF r.raised THEN "error"
                                 ELSE IF type = "button_reply" THEN "button_handled"
                                 ELSE "list_handled")
                /\ UNCHANGED <<sheet_rows, inflight, received>>
    /\ script' = Follow(script, type, interaction_id, dup)
    /\ UNCHANGED <<now, applied, ADMIN_NUMBER>>

\* a selection handled while no other event of the sender is being handled
Selection(phone_number, type, interaction_id, dup, net, append_ok) ==
    /\ inflight[phone_number] = NoCall
    /\ WebhookSelection(phone_number, type, interaction_id, dup, net, append_ok)
    /\ serial' = [serial EXCEPT ![phone_number] = NoSerial]

\* complete_booking after add_lead_to_sheet: clear the session, send the confirmation
FinishBooking(phone_number, net) ==
    /\ inflight[phone_number] # NoCall
    /\ booking_sessions' = ClearSession(booking_sessions, phone_number)
    /\ outbox' = <<Msg(phone_number,
                       IF inflight[phone_number].success THEN "booking_confirmed"
                       ELSE "booking_received", NoInfo, net)>>
    /\ inflight' = [inflight EXCEPT ![phone_number] = NoCall]
    /\ last' = [last EXCEPT !.status = IF last.type = "button_reply" THEN "button_handled"
                                       ELSE "list_handled"]
    /\ UNCHANGED <<sheet_rows, now, last_list, received, script, serial, applied,
                   ADMIN_NUMBER>>

\* whether check_and_send_reminders sends for a session
Due(session_data, current_time) ==
    /\ Get(session_data, "reminder_scheduled", FALSE)
    /\ "reminder_time" \in DOMAIN session_data
    /\ current_time >= session_data.reminder_time

\* one pass of the reminder checker thread; nets is the outcome of each send
check_and_send_reminders(nets) ==
    LET due == {p \in DOMAIN booking_sessions : Due(booking_sessions[p], now)}
    IN  /\ due # {}
        /\ \A p \in due : received[p] < MaxReceived
        /\ booking_sessions' =
               [p \in DOMAIN booking_sessions |->
                   IF p \in due /\ send_whatsapp_message(p, nets[p])
                   THEN Update(booking_sessions[p],
                               [reminder_sent |-> TRUE, reminder_scheduled |-> FALSE])
                   ELSE booking_sessions[p]]
        /\ received' = [p \in DOMAIN received |->
                           IF p \in due /\ Delivered(p, nets[p]) THEN received[p] + 1
                           ELSE received[p]]
        /\ outbox' = <<>>
        /\ last' = Event("", "reminder_pass", <<>>, FALSE, "none")
        /\ UNCHANGED <<sheet_rows, now, inflight, last_list, script, serial, applied,
                       ADMIN_NUMBER>>

\* the clock advances; it is followed only while a reminder job is pending
Tick ==
    /\ now < StartNow + MaxElapsed
    /\ \E p \in DOMAIN booking_sessions : HasJob(booking_sessions, p)
    /\ now' = now + 1
    /\ UNCHANGED <<booking_sessions, sheet_rows, inflight, last_list, last, outbox, received,
                   script, serial, applied, ADMIN_NUMBER>>

\* the texts a sender types at a step, and the selections a sender can make,
\* drawn from the input sets in
TextChoices(in, phone) ==
    LET step == Get(SessionOf(booking_sessions, phone), "step", None)
    IN  CASE step = "awaiting_name" -> in.names
          [] step = "awaiting_contact" -> in.contacts
          [] step \in {"awaiting_date", "awaiting_inquiry_date"} -> in.dates
          [] step = "awaiting_people_count" -> in.counts
          [] step = "awaiting_inquiry_custom_people" -> in.people
          [] step = "awaiting_inquiry_questions" -> in.questions
          [] OTHER -> in.idle

ListChoices(in, phone) ==
    {<<m>> : m \in in.menu}
        \cup {<<c>> \o last_list[phone].tail : c \in Rows(last_list[phone].kind) \cap in.rows}

TextIn(in) ==
    \E p \in Senders : \E text \in TextChoices(in, p) : \E net \in in.nets, ok \in in.appends :
        TextMessage(p, text, FALSE, net, ok)

ListIn(in) ==
    \E p \in Senders : \E id \in ListChoices(in, p) : \E net \in in.nets, ok \in in.appends :
        Selection(p, "list_reply", id, FALSE, net, ok)

ButtonIn(in) ==
    \E p \in Senders \ DOMAIN booking_sessions : \E net \in in.nets :
        Selection(p, "button_reply", <<"view_options">>, FALSE, net, TRUE)

\* the platform delivers the event handled last a second time
Redeliver(in) ==
    \E net \in in.nets, ok \in in.appends :
        \/ last.type = "text" /\ TextMessage(last.from, last.body, TRUE, net, ok)
        \/ last.type \in {"list_reply", "button_reply"}
           /\ Selection(last.from, last.type, last.body, TRUE, net, ok)

Finish(in) == \E p \in Senders : \E net \in in.nets : FinishBooking(p, net)

ReminderPass == \E nets \in [Senders -> SendOutcomes] : check_and_send_reminders(nets)

\* the inputs of the booking conversation
BookingInputs ==
    [names |-> {<<"Ahmed Al Harthy">>},
     contacts |-> {<<"91234567">>},
     dates |-> {<<"tomorrow">>, <<"soon">>, <<"tomorrow", "x">>},
     counts |-> {<<"2">>},
     people |-> {},
     questions |-> {},
     idle |-> {<<"hi">>},
     menu |-> {"book_tour"},
     rows |-> {"book_dolphin", "people_2", "people_6", "time_9am"},
     nets |-> {"ok"},
     appends |-> {TRUE, FALSE}]

Next ==
    \/ TextIn(BookingInputs)
    \/ ListIn(BookingInputs)
    \/ ButtonIn(BookingInputs)
    \/ Redeliver(BookingInputs)
    \/ Finish(BookingInputs)
    \/ ReminderPass
    \/ Tick

Spec == Init /\ [][Next]_vars

\* the inputs of an inquiry about a slot that bookings may have filled
InquiryInputs ==
    [names |-> {<<"Ahmed Al Harthy">>},
     contacts |-> {<<"91234567">>},
     dates |-> {<<"tomorrow", "x">>},
     counts |-> {<<"2">>},
     people |-> {<<"8 people">>},
     questions |-> {<<"No questions">>},
     idle |-> {<<"hi">>},
     menu |-> {"book_tour", "inquire_tour"},
     rows |-> {"book_fishing", "people_4", "time_9am",
               "inquiry_fishing", "inquiry_people_1", "inquiry_people_custom",
               "inquiry_time_9am"},
     nets |-> {"ok"},
     appends |-> {TRUE}]

NextInquiry ==
    \/ TextIn(InquiryInputs)
    \/ ListIn(InquiryInputs)
    \/ ButtonIn(InquiryInputs)
    \/ Redeliver(InquiryInputs)
    \/ Finish(InquiryInputs)
    \/ ReminderPass
    \/ Tick

SpecInquiry == Init /\ [][NextInquiry]_vars

(***************************************************************************)
(* Capacity of a slot.                                                     *)
(***************************************************************************)
\* the party sizes the sheet records as 'Book Tour' for a (tour, date, slot) key
RECURSIVE Reserved(_, _, _, _)
Reserved(rows, tour_type, booking_date, booking_time) ==
    IF rows = <<>> THEN 0
    ELSE (IF /\ Head(rows).intent = <<"Book Tour">>
             /\ Head(rows).tour_type = tour_type
             /\ Head(rows).booking_date = booking_date
             /\ Head(rows).booking_time = booking_time
          THEN extract_people_count(Head(rows).people_count) ELSE 0)
         + Reserved(Tail(rows), tour_type, booking_date, booking_time)

\* C1: for every (tour, date, slot) key, the party sizes recorded as 'Book Tour'
\* for the key never add up to more than the tour's capacity.
CapacityNeverExceeded ==
    \A i \in DOMAIN sheet_rows :
        sheet_rows[i].intent = <<"Book Tour">> =>
            Reserved(sheet_rows, sheet_rows[i].tour_type, sheet_rows[i].booking_date,
                     sheet_rows[i].booking_time) <= max_capacity(sheet_rows[i].tour_type)

\* C2: handling an inbound event that is delivered a second time has no further
\* effect: no lead row is added, and the sessions (step, collected values,
\* reminder job) stay as they are.
DuplicateEventHasNoEffect ==
    [][(last'.dup /\ last' # last /\ \A p \in Senders : inflight[p] = NoCall)
          => (sheet_rows' = sheet_rows /\ booking_sessions' = booking_sessions)]_vars

\* C3: a time selection for a slot whose remaining capacity is smaller than the
\* party size writes no lead row and leaves the sender's session in place.
FullSlotIsNotBooked ==
    [][\A p \in Senders :
          (/\ inflight[p] = NoCall
           /\ inflight'[p] # NoCall
           /\ max_capacity(inflight'[p].tour_type)
                  - Reserved(sheet_rows, inflight'[p].tour_type, inflight'[p].booking_date,
                             inflight'[p].booking_time)
              < extract_people_count(inflight'[p].people_count))
          => (/\ sheet_rows' = sheet_rows
              /\ (p \in DOMAIN booking_sessions => p \in DOMAIN booking_sessions'))]_vars

\* the alternative slots an availability answer carries
Alternatives(info) == IF "alternatives" \in DOMAIN info THEN info.alternatives ELSE <<>>

\* C4: when the bookings of a slot add up to the tour's capacity, the answer to a
\* request for one person on that slot is 'not available' and carries between one
\* and three alternative slots in chronological order.
FullSlotOffersAlternatives ==
    \A i \in DOMAIN outbox :
        (/\ outbox[i].kind = "inquiry_summary"
         /\ conflicting_bookings(sheet_rows, Seg(last.body[3]),
                                 parse_date(Seg(last.body[5]), Today(now)),
                                 parse_time(time_map(last.body[1])), Today(now))
                = max_capacity(Seg(last.body[3]))
         /\ extract_people_count(Seg(last.body[4])) = 1)
        => (/\ ~outbox[i].info.ok
            /\ Len(Alternatives(outbox[i].info)) \in 1 .. 3
            /\ \A j \in 1 .. Len(Alternatives(outbox[i].info)) - 1 :
                   Alternatives(outbox[i].info)[j] < Alternatives(outbox[i].info)[j + 1])

(***************************************************************************)
(* The end-to-end conversation.                                            *)
(***************************************************************************)
Customer == CHOOSE p \in Senders : TRUE

\* the step the conversation is at after each event of Script but the last
ScriptSteps ==
    <<None, "awaiting_name", "awaiting_contact", "awaiting_tour_type",
      "awaiting_people_count", "awaiting_date", "awaiting_time">>

\* C5: the end-to-end conversation moves the session one step per event, and after
\* its last event the session is gone, the sheet has exactly one lead row, 2 of the
\* slot's places are taken and exactly one reminder job is scheduled.
EndToEndBooking ==
    /\ script \in 1 .. 7 =>
           Get(SessionOf(booking_sessions, Customer), "step", None) = ScriptSteps[script]
    /\ (script = Len(Script) /\ inflight[Customer] = NoCall) =>
           /\ Get(SessionOf(booking_sessions, Customer), "step", None) = None
           /\ Len(sheet_rows) = 1
           /\ Reserved(sheet_rows, <<"Dolphin Watching">>, <<"tomorrow">>, <<"9:00 AM">>) = 2
           /\ HasJob(booking_sessions, Customer)

\* C6: the lead row a booking appends carries the values the session collected,
\* each in its own column and none changed.
LeadRowKeepsCollectedValues ==
    [][\A p \in Senders :
          (/\ Get(SessionOf(booking_sessions, p), "step", None) = "awaiting_time"
           /\ inflight[p] = NoCall
           /\ inflight'[p] # NoCall
           /\ Len(sheet_rows') = Len(sheet_rows) + 1)
          => (/\ sheet_rows'[Len(sheet_rows')].whatsapp_id = p
              /\ sheet_rows'[Len(sheet_rows')].name = booking_sessions[p].name
              /\ sheet_rows'[Len(sheet_rows')].contact = booking_sessions[p].contact
              /\ sheet_rows'[Len(sheet_rows')].tour_type = booking_sessions[p].tour_type
              /\ sheet_rows'[Len(sheet_rows')].people_count = booking_sessions[p].people_count
              /\ sheet_rows'[Len(sheet_rows')].booking_date
                     = booking_sessions[p].booking_date)]_vars

(***************************************************************************)
(* Reminders.                                                              *)
(***************************************************************************)
\* the minute a booking starts
BookingMinute(booking_date, booking_time, today) ==
    parse_date(booking_date, today)[1] * MinutesPerDay + parse_time(booking_time)[1]

\* C7: a completed booking whose date resolves has a reminder job whose fire time
\* is the booking's date and time less 24 hours.
ReminderIsADayBefore ==
    \A p \in Senders :
        (/\ inflight[p] # NoCall
         /\ inflight[p].success
         /\ parse_date(inflight[p].booking_date, Today(now)) # <<>>
         /\ parse_time(inflight[p].booking_time) # <<>>)
        => (/\ p \in DOMAIN booking_sessions
            /\ "reminder_time" \in DOMAIN booking_sessions[p]
            /\ booking_sessions[p].reminder_time
                   = BookingMinute(inflight[p].booking_date, inflight[p].booking_time,
                                   Today(now)) - MinutesPerDay)

\* a job that has fired: reminder_sent set, reminder_scheduled cleared
Fired(sessions, phone) ==
    /\ phone \in DOMAIN sessions
    /\ Get(sessions[phone], "reminder_sent", FALSE)
    /\ ~Get(sessions[phone], "reminder_scheduled", FALSE)

\* C8: a scheduled reminder job stays scheduled until it fires, so that the checker
\* gets to fire it: no step leaves a scheduled job neither scheduled nor fired.
ScheduledReminderIsKept ==
    [][\A p \in Senders :
          HasJob(booking_sessions, p)
              => (HasJob(booking_sessions', p) \/ Fired(booking_sessions', p))]_vars

\* C10: the sender of a booking receives the reminder of its job at most once,
\* however many passes the checker makes and whatever its sends report.
ReminderFiresAtMostOnce == \A p \in Senders : received[p] <= 1

(***************************************************************************)
(* Request threads.  The server handles each request on a thread of its    *)
(* own and booking_sessions has no lock: an event of a sender is handled   *)
(* while complete_booking for the same sender is between add_lead_to_sheet *)
(* and the deletion of the session.                                        *)
(***************************************************************************)
OverlapText(in) ==
    \E p \in Senders : \E text \in TextChoices(in, p) : \E net \in in.nets :
        /\ inflight[p] # NoCall
        /\ serial[p] = NoSerial
        /\ WebhookText(p, text, FALSE, net, TRUE)
        /\ serial' = [serial EXCEPT ![p] = <<ClearSession(booking_sessions, p)>>]

OverlapSelection(in) ==
    \E p \in Senders : \E id \in ListChoices(in, p) : \E net \in in.nets :
        /\ inflight[p] # NoCall
        /\ serial[p] = NoSerial
        /\ ~IsTimeSelection(id)
        /\ WebhookSelection(p, "list_reply", id, FALSE, net, TRUE)
        /\ serial' = [serial EXCEPT ![p] =
                         <<handle_interaction(ClearSession(booking_sessions, p), id, p, TRUE,
                                              sheet_rows, Today(now)).sessions>>]

\* the inputs of a sender who goes on while the booking is being completed
ConcurrentInputs ==
    [names |-> {<<"Ahmed Al Harthy">>},
     contacts |-> {<<"91234567">>},
     dates |-> {<<"tomorrow">>},
     counts |-> {<<"2">>},
     people |-> {},
     questions |-> {},
     idle |-> {<<"hi">>},
     menu |-> {"book_tour", "inquire_tour"},
     rows |-> {"book_dolphin", "people_2", "time_9am"},
     nets |-> {"ok"},
     appends |-> {TRUE}]

NextConcurrent ==
    \/ TextIn(ConcurrentInputs)
    \/ ListIn(ConcurrentInputs)
    \/ ButtonIn(ConcurrentInputs)
    \/ Redeliver(ConcurrentInputs)
    \/ Finish(ConcurrentInputs)
    \/ OverlapText(ConcurrentInputs)
    \/ OverlapSelection(ConcurrentInputs)
    \/ ReminderPass
    \/ Tick

SpecConcurrent == Init /\ [][NextConcurrent]_vars

\* C11: when an event of a sender is handled while another event of the sender is
\* being handled, the sessions are, once both are done, what handling the two one
\* after the other in arrival order leaves.
ConcurrentEventsAreSerial ==
    \A p \in Senders :
        (inflight[p] = NoCall /\ serial[p] # NoSerial) => booking_sessions = serial[p][1]

(***************************************************************************)
(* parse_date on its own, on each day of more than a week.                 *)
(***************************************************************************)
DateInputs ==
    {<<"Tomorrow">>, <<"tomorrow">>, <<"TOMORROW">>, <<"today">>,
     <<"monday">>, <<"tuesday">>, <<"wednesday">>, <<"thursday">>, <<"friday">>,
     <<"saturday">>, <<"sunday">>, <<"Friday">>, <<"Sunday">>, <<"friday or saturday">>,
     <<"2024-12-25">>, <<"2025-01-01">>, <<"2024-02-29">>, <<"2025-02-29">>,
     <<"25/12/2024">>, <<"soon">>, <<"Not specified">>, <<>>}

ParseDate ==
    /\ \E date_str \in DateInputs :
           applied' = [fn |-> "parse_date", date_str |-> date_str, today |-> Today(now),
                       value |-> parse_date(date_str, Today(now))]
    /\ UNCHANGED <<booking_sessions, sheet_rows, now, inflight, last_list, last, outbox,
                   received, script, serial, ADMIN_NUMBER>>

\* midnight passes
DayPasses ==
    /\ Today(now) < Today(StartNow) + MaxDays
    /\ now' = now + MinutesPerDay
    /\ UNCHANGED <<booking_sessions, sheet_rows, inflight, last_list, last, outbox, received,
                   script, serial, applied, ADMIN_NUMBER>>

NextDates == ParseDate \/ DayPasses

SpecDates == Init /\ [][NextDates]_vars

\* C12: parse_date resolves 'Tomorrow' to today + 1, a weekday name to the one date
\* of today .. today + 6 that falls on that weekday, and the ISO strings
\* '2024-12-25' and '2025-01-01' to the days 2 and 9 after Monday 2024-12-23.
ParseDateResolves ==
    applied.fn = "parse_date" =>
        /\ Lower(applied.date_str) = <<"tomorrow">> => applied.value = <<applied.today + 1>>
        /\ \A k \in DOMAIN WeekdayOrder :
               Lower(applied.date_str) = <<WeekdayOrder[k]>> =>
                   /\ applied.value # <<>>
                   /\ applied.value[1] \in applied.today .. applied.today + 6
                   /\ applied.value[1] % 7 = k - 1
        /\ applied.date_str = <<"2024-12-25">> => applied.value = <<2>>
        /\ applied.date_str = <<"2025-01-01">> => applied.value = <<9>>

\* a Friday on which 'Friday' was resolved to that very day
FridayOnAFriday ==
    /\ applied.fn = "parse_date"
    /\ applied.date_str = <<"Friday">>
    /\ applied.today % 7 = 4
    /\ applied.value = <<applied.today>>

(***************************************************************************)
(* Greetings and frequent questions typed at every step of a conversation. *)
(***************************************************************************)
GreetingTexts == {<<"hi">>, <<"Hi">>, <<"menu">>}

FaqTexts == {<<"how much">>}

\* the inputs of a sender who greets or asks at every step
ChattyInputs ==
    [names |-> {<<"hi">>},
     contacts |-> {<<"how much">>},
     dates |-> {<<"tomorrow">>},
     counts |-> {<<"hi">>},
     people |-> {},
     questions |-> {},
     idle |-> GreetingTexts \cup FaqTexts,
     menu |-> {"book_tour"},
     rows |-> {"book_dolphin", "people_2", "time_9am"},
     nets |-> {"ok"},
     appends |-> {TRUE}]

NextChatty ==
    \/ TextIn(ChattyInputs)
    \/ ListIn(ChattyInputs)
    \/ ButtonIn(ChattyInputs)
    \/ Finish(ChattyInputs)
    \/ ReminderPass
    \/ Tick

SpecChatty == Init /\ [][NextChatty]_vars

\* a step that handles a text of texts from sender p
HandlesText(p, texts) ==
    \E text \in texts : \E dup \in BOOLEAN :
        WebhookText(p, text, dup, "ok", TRUE)

AdminNumbers == {DefaultAdminNumber, "96891234567", "447700900999"}

Visitors == {"96878505509", "447700900123"}

InitAdmin == Started /\ now = StartNow /\ ADMIN_NUMBER \in AdminNumbers

AdminInputs ==
    [names |-> {<<"Ahmed Al Harthy">>},
     contacts |-> {<<"91234567">>},
     dates |-> {<<"tomorrow">>},
     counts |-> {<<"2">>},
     people |-> {},
     questions |-> {},
     idle |-> {<<"stats">>},
     commands |-> {<<"Stats">>, <<"reminder">>, <<"Reminder 91234567">>, <<"help">>,
                   <<"Ahmed Al Harthy">>},
     menu |-> {"book_tour"},
     rows |-> {"book_dolphin", "people_2", "time_9am"},
     nets |-> {"ok"},
     appends |-> {TRUE}]

\* a text that the server takes as an admin command
AdminIn(in) ==
    \E p \in Senders \cup Visitors : \E text \in in.commands :
        \E net \in in.nets, sheet_ok \in BOOLEAN :
            /\ p \in Senders => inflight[p] = NoCall
            /\ WebhookAdmin(p, text, FALSE, net, sheet_ok)
            /\ UNCHANGED serial

\* a text of a sender who only types, handled as a customer's text
VisitorIn(in) ==
    \E p \in Visitors : \E text \in in.commands : \E net \in in.nets :
        /\ WebhookText(p, text, FALSE, net, TRUE)
        /\ UNCHANGED serial

NextAdmin ==
    \/ TextIn(AdminInputs)
    \/ ListIn(AdminInputs)
    \/ ButtonIn(AdminInputs)
    \/ Finish(AdminInputs)
    \/ AdminIn(AdminInputs)
    \/ VisitorIn(AdminInputs)
    \/ ReminderPass
    \/ Tick

SpecAdmin == InitAdmin /\ [][NextAdmin]_vars

\* the webhook handles a text of a sender whom handle_admin_command authorises
AdminTextHandled ==
    /\ last'.type = "text"
    /\ IsAdmin(last'.from)
    /\ \E net \in AdminInputs.nets, sheet_ok \in BOOLEAN :
           \/ WebhookAdmin(last'.from, last'.body, FALSE, net, sheet_ok)
           \/ WebhookText(last'.from, last'.body, FALSE, net, TRUE)

\* C15: handling a text of the admin sender, whether 'stats', 'reminder',
\* 'reminder <id>', 'help' or any other text, leaves booking_sessions as it was
AdminCommandKeepsSessions ==
    [][AdminTextHandled => booking_sessions' = booking_sessions]_vars

\* an admin's 'reminder' reached a customer who is in the middle of a booking
AdminRemindedDuringBooking ==
    /\ last.status = "admin_command_handled"
    /\ Len(outbox) = 2
    /\ outbox[1].kind = "reminder"
    /\ outbox[1].to \in DOMAIN booking_sessions

\* the sender's number normalises to the normalised admin number
MatchesAdmin(phone_number) ==
    /\ clean_oman_number(phone_number) # <<>>
    /\ clean_oman_number(phone_number) = clean_oman_number(ADMIN_NUMBER)

\* C16: a text is handled as an admin command only for a sender whose
\* normalised number is the configured admin number, whatever ADMIN_NUMBER is
\* and also for a sender whose number cannot be normalised
OnlyTheAdminCommands ==
    last.status = "admin_command_handled" => MatchesAdmin(last.from)

(***************************************************************************)
(* The answers of the booking conversation: every row of the party-size   *)
(* list, typed party sizes, and dates that parse_date reads or does not.   *)
(***************************************************************************)
AnswerInputs ==
    [names |-> {<<"Ahmed Al Harthy">>},
     contacts |-> {<<"91234567">>},
     dates |-> {<<"tomorrow">>, <<"soon">>},
     counts |-> {<<"2">>, <<"soon">>},
     people |-> {},
     questions |-> {},
     idle |-> {<<"hi">>},
     menu |-> {"book_tour"},
     rows |-> {"book_dolphin", "people_2", "people_custom", "time_9am"},
     posted |-> {<<"time_7pm", "Ahmed Al Harthy", "91234567", "Dolphin Watching", "2 people",
                   "tomorrow">>},
     nets |-> {"ok"},
     appends |-> {TRUE}]

\* a list reply posted to the webhook whose id no list message of the server carried
PostedIn(in) ==
    \E p \in Senders : \E id \in in.posted : \E net \in in.nets, ok \in in.appends :
        Selection(p, "list_reply", id, FALSE, net, ok)

NextAnswers ==
    \/ TextIn(AnswerInputs)
    \/ ListIn(AnswerInputs)
    \/ PostedIn(AnswerInputs)
    \/ ButtonIn(AnswerInputs)
    \/ Finish(AnswerInputs)
    \/ ReminderPass
    \/ Tick

SpecAnswers == Init /\ [][NextAnswers]_vars

\* the step of the sender's session, None without a session
StepOf(sessions, phone) == Get(SessionOf(sessions, phone), "step", None)

\* the people count denotes a positive integer
IsPositiveCount(people_count) ==
    FirstNumberIn(people_count) # <<>> /\ FirstNumberIn(people_count)[1] > 0

\* the event gives a party size that denotes a positive integer
GivesPositiveCount(event) ==
    IF event.type = "text" THEN IsPositiveCount(event.body)
    ELSE /\ event.type = "list_reply"
         /\ Head(event.body) \in Rows("people")
         /\ IsPositiveCount(people_label(Head(event.body)))

\* C17: an event handled while the session awaits the party size moves it to
\* the date step only with a people count that denotes a positive integer;
\* an input that is no positive integer is answered with the party-size
\* prompt and leaves the session as it was
PartySizeLeftOnlyWithCount ==
    [][\A p \in Senders :
          (/\ StepOf(booking_sessions, p) = "awaiting_people_count"
           /\ last'.from = p
           /\ last'.type \in {"text", "list_reply", "button_reply"}
           /\ last' # last \/ outbox' # outbox \/ booking_sessions' # booking_sessions)
          => /\ StepOf(booking_sessions', p) = "awaiting_date"
                => IsPositiveCount(booking_sessions'[p].people_count)
             /\ ~GivesPositiveCount(last')
                => /\ SessionOf(booking_sessions', p) = SessionOf(booking_sessions, p)
                   /\ Len(outbox') = 1
                   /\ outbox'[1].kind = "people_list"]_vars

\* C18: a text for which parse_date returns no date, typed while the session
\* awaits the date of a booking or of an inquiry, is answered with the date
\* prompt and leaves the step and the fields of the session as they were
UnparseableDateStays ==
    [][\A p \in Senders :
          (/\ StepOf(booking_sessions, p) \in {"awaiting_date", "awaiting_inquiry_date"}
           /\ last'.from = p
           /\ last'.type = "text"
           /\ last' # last
           /\ parse_date(last'.body, Today(now)) = <<>>)
          => /\ SessionOf(booking_sessions', p) = SessionOf(booking_sessions, p)
             /\ Len(outbox') = 1
             /\ outbox'[1].kind \in {"ask_date", "ask_inquiry_date"}]_vars

\* the departure times of the time list
TimeSlots ==
    {<<"8:00 AM">>, <<"9:00 AM">>, <<"10:00 AM">>, <<"2:00 PM">>, <<"4:00 PM">>, <<"6:00 PM">>}

\* C19: the time of every completed booking, in the call of complete_booking
\* and in the lead row it wrote, is one of 8:00 AM, 9:00 AM, 10:00 AM, 2:00 PM,
\* 4:00 PM and 6:00 PM, whatever time selection completed it
BookedTimeIsASlot ==
    /\ \A p \in Senders : inflight[p] # NoCall => inflight[p].booking_time \in TimeSlots
    /\ \A i \in DOMAIN sheet_rows :
           sheet_rows[i].intent = <<"Book Tour">> => sheet_rows[i].booking_time \in TimeSlots

(***************************************************************************)
(* Bookings made while the sheet takes the lead row or refuses it.         *)
(***************************************************************************)
SheetInputs ==
    [names |-> {<<"Ahmed Al Harthy">>},
     contacts |-> {<<"91234567">>},
     dates |-> {<<"tomorrow">>},
     counts |-> {<<"2">>},
     people |-> {},
     questions |-> {},
     idle |-> {<<"hi">>},
     menu |-> {"book_tour"},
     rows |-> {"book_dolphin", "people_2", "time_9am", "time_4pm"},
     nets |-> {"ok", "rejected"},
     appends |-> {TRUE, FALSE}]

NextSheet ==
    \/ TextIn(SheetInputs)
    \/ ListIn(SheetInputs)
    \/ ButtonIn(SheetInputs)
    \/ Finish(SheetInputs)
    \/ ReminderPass
    \/ Tick

SpecSheet == Init /\ [][NextSheet]_vars

\* C20: when the lead row of a booking is not written, add_lead_to_sheet
\* returns False to complete_booking, which still sends the sender the
\* 'Booking Received' message, and the webhook answers the request without
\* an error
UnwrittenLeadIsStillConfirmed ==
    [][\A p \in Senders :
          /\ (inflight[p] = NoCall /\ inflight'[p] # NoCall /\ sheet_rows' = sheet_rows)
             => ~inflight'[p].success /\ last'.status # "error"
          /\ (inflight[p] # NoCall /\ ~inflight[p].success /\ inflight'[p] = NoCall)
             => /\ Len(outbox') = 1
                /\ outbox'[1].to = p
                /\ outbox'[1].kind = "booking_received"
                /\ last'.status = "list_handled"]_vars

\* a booking whose lead row was not written has been answered
ReceivedWithoutRow ==
    /\ last.status = "list_handled"
    /\ IsTimeSelection(last.body)
    /\ sheet_rows = <<>>
    /\ Len(outbox) = 1
    /\ outbox[1].kind = "booking_received"
    /\ outbox[1].delivered

\* the fields of a session other than its step
FieldsOf(session) == [k \in DOMAIN session \ {"step"} |-> session[k]]

\* C21: when handling an event raises, the sender's session falls back to the
\* menu (it awaits no answer any more), the sender is sent an apology, and
\* every field the session had collected is still in it
ErrorFallsBackToMenu ==
    [][\A p \in Senders :
          (last'.status = "error" /\ last'.from = p /\ last' # last)
          => /\ StepOf(booking_sessions', p) \in {None, "menu"}
             /\ Len(outbox') = 1
             /\ outbox'[1].to = p
             /\ outbox'[1].kind = "apology"
             /\ p \in DOMAIN booking_sessions
                => /\ p \in DOMAIN booking_sessions'
                   /\ \A k \in DOMAIN FieldsOf(booking_sessions[p]) :
                          /\ k \in DOMAIN booking_sessions'[p]
                          /\ booking_sessions'[p][k] = booking_sessions[p][k]]_vars

\* the text columns of a lead row, after Timestamp and beside WhatsApp ID
TextColumns ==
    {"name", "contact", "intent", "tour_type", "booking_date", "booking_time", "people_count",
     "notes"}

\* C22: every lead row has the same columns and every column holds a value:
\* a column the flow collected nothing for holds 'Not specified', never the
\* empty text, in the rows of bookings and of inquiries
LeadRowsArePopulated ==
    \A i \in DOMAIN sheet_rows :
        /\ DOMAIN sheet_rows[i] = TextColumns \cup {"timestamp", "whatsapp_id"}
        /\ sheet_rows[i].whatsapp_id # ""
        /\ \A column \in TextColumns : sheet_rows[i][column] \notin {<<>>, <<"">>}

(***************************************************************************)
(* Bookings and inquiries that run to their completion, while the sheet    *)
(* takes the lead row or refuses it.  The inquiry's date has two segments: *)
(* see InquiryRunsToCompletion.                                            *)
(***************************************************************************)
LeadInputs ==
    [names |-> {<<"Ahmed Al Harthy">>},
     contacts |-> {<<"91234567">>},
     dates |-> {<<"tomorrow", "x">>},
     counts |-> {<<"2">>},
     people |-> {},
     questions |-> {<<"No questions">>},
     idle |-> {<<"hi">>},
     menu |-> {"book_tour", "inquire_tour"},
     rows |-> {"book_dolphin", "people_2", "time_9am",
               "inquiry_dolphin", "inquiry_people_2", "inquiry_time_9am"},
     nets |-> {"ok"},
     appends |-> {TRUE, FALSE}]

NextLeads ==
    \/ TextIn(LeadInputs)
    \/ ListIn(LeadInputs)
    \/ ButtonIn(LeadInputs)
    \/ Finish(LeadInputs)
    \/ ReminderPass
    \/ Tick

SpecLeads == Init /\ [][NextLeads]_vars

\* C23: when complete_booking or complete_inquiry has run for a sender,
\* booking_sessions has no entry for the sender, whether the lead row was
\* written or not
SessionDestroyedOnCompletion ==
    [][\A p \in Senders :
          (\/ inflight[p] # NoCall /\ inflight'[p] = NoCall
           \/ last'.status = "inquiry_completed" /\ last'.from = p /\ last' # last)
          => p \notin DOMAIN booking_sessions']_vars

\* an inquiry was completed while the sheet refused its row
InquiryCompletedWithoutRow ==
    /\ last.status = "inquiry_completed"
    /\ sheet_rows = <<>>
    /\ last.from \notin DOMAIN booking_sessions

(***************************************************************************)
(* Abandoned conversations: the sender sends events on the first day only, *)
(* and the days go by while the reminder thread keeps running.             *)
(***************************************************************************)
AbandonInputs ==
    [names |-> {<<"Ahmed Al Harthy">>},
     contacts |-> {<<"91234567">>},
     dates |-> {<<"tomorrow">>},
     counts |-> {<<"2">>},
     people |-> {},
     questions |-> {},
     idle |-> {<<"hi">>},
     menu |-> {"book_tour", "inquire_tour"},
     rows |-> {"book_dolphin", "people_2", "time_9am", "inquiry_dolphin"},
     nets |-> {"ok"},
     appends |-> {TRUE}]

FirstDay == Today(now) = Today(StartNow)

NextAbandoned ==
    \/ FirstDay /\ TextIn(AbandonInputs)
    \/ FirstDay /\ ListIn(AbandonInputs)
    \/ FirstDay /\ ButtonIn(AbandonInputs)
    \/ Finish(AbandonInputs)
    \/ ReminderPass
    \/ Tick
    \/ DayPasses

\* the clock and the reminder thread (start_reminder_checker) never stop, and a
\* call of complete_booking runs to its end
SpecAbandoned ==
    /\ Init
    /\ [][NextAbandoned]_vars
    /\ WF_vars(DayPasses)
    /\ WF_vars(Tick)
    /\ WF_vars(ReminderPass)
    /\ WF_vars(Finish(AbandonInputs))

\* C24: a session that receives no further events is removed from
\* booking_sessions once its inactivity window has passed: when the sender has
\* fallen silent, the session map eventually holds no session
AbandonedSessionIsReclaimed == <>[](booking_sessions = <<>>)

\* what a sender who wants out may type, and every selection a sender can make:
\* the ids of the menus and the rows of the list the sender holds
CancelTexts == {<<"cancel">>, <<"stop">>, <<"menu">>, <<"hi">>, <<"No questions">>}

MenuIds ==
    {"view_options", "dolphin_tour", "snorkeling", "dhow_cruise", "fishing", "pricing",
     "location", "schedule", "contact", "book_now", "book_tour", "inquire_tour", "cancel"}

\* an event of the sender whose handling leaves the sender without a session
\* and the sheet without a new lead
CancelStep(p) ==
    /\ \/ \E text \in CancelTexts : TextMessage(p, text, FALSE, "ok", TRUE)
       \/ \E id \in {<<m>> : m \in MenuIds}
                      \cup {<<c>> \o last_list[p].tail : c \in Rows(last_list[p].kind)} :
              Selection(p, "list_reply", id, FALSE, "ok", TRUE)
       \/ \E id \in {<<m>> : m \in MenuIds} : Selection(p, "button_reply", id, FALSE, "ok", TRUE)
    /\ p \notin DOMAIN booking_sessions'
    /\ sheet_rows' = sheet_rows

\* C25: at every step of the booking flow and of the inquiry flow there is an
\* event the sender can send that ends the conversation as cancelled: the
\* session is gone and no lead was persisted
CancelAlwaysPossible ==
    \A p \in Senders :
        (p \in DOMAIN booking_sessions /\ inflight[p] = NoCall) => ENABLED CancelStep(p)

(***************************************************************************)
(* Conversations of a sender who answers every prompt as asked: rows of    *)
(* the lists received and ordinary texts.                                  *)
(***************************************************************************)
OrdinaryInputs ==
    [names |-> {<<"Ahmed Al Harthy">>},
     contacts |-> {<<"91234567">>},
     dates |-> {<<"tomorrow">>},
     counts |-> {<<"2">>},
     people |-> {<<"8 people">>},
     questions |-> {<<"No questions">>},
     idle |-> {<<"hi">>},
     menu |-> {"book_tour", "inquire_tour"},
     rows |-> {"book_dolphin", "people_2", "time_9am",
               "inquiry_dolphin", "inquiry_people_2", "inquiry_time_9am"},
     nets |-> {"ok"},
     appends |-> {TRUE}]

NextOrdinary ==
    \/ TextIn(OrdinaryInputs)
    \/ ListIn(OrdinaryInputs)
    \/ ButtonIn(OrdinaryInputs)
    \/ Finish(OrdinaryInputs)
    \/ ReminderPass
    \/ Tick

SpecOrdinary == Init /\ [][NextOrdinary]_vars

\* the sender selects a row of the list that the bot sent last
SelectsIssuedRow(p, kind) ==
    /\ last'.from = p
    /\ last'.type = "list_reply"
    /\ last' # last
    /\ last_list[p].kind = kind
    /\ Head(last'.body) \in Rows(kind)
    /\ last'.body = <<Head(last'.body)>> \o last_list[p].tail

\* C26: the inquiry flow runs to its completion for a sender who selects rows
\* of the lists the bot issued and types ordinary texts: the tour row leads to
\* the people step, the people row to the date step, the date text to the time
\* step, the time row to the questions step, and the questions text writes one
\* 'Detailed Tour Inquiry' lead and destroys the session
InquiryRunsToCompletion ==
    [][\A p \in Senders :
          LET step == StepOf(booking_sessions, p)
              next == StepOf(booking_sessions', p)
              typed == last'.from = p /\ last'.type = "text" /\ last' # last
          IN  /\ (step = "awaiting_inquiry_tour" /\ SelectsIssuedRow(p, "inquiry_tour")
                  /\ Head(last'.body) # "inquiry_unsure")
                 => next = "awaiting_inquiry_people"
              /\ (step = "awaiting_inquiry_people" /\ SelectsIssuedRow(p, "inquiry_people")
                  /\ Head(last'.body) # "inquiry_people_custom")
                 => next = "awaiting_inquiry_date"
              /\ (step = "awaiting_inquiry_date" /\ typed) => next = "awaiting_inquiry_time"
              /\ (step = "awaiting_inquiry_time" /\ SelectsIssuedRow(p, "inquiry_time"))
                 => next = "awaiting_inquiry_questions"
              /\ (step = "awaiting_inquiry_questions" /\ typed)
                 => /\ p \notin DOMAIN booking_sessions'
                    /\ Len(sheet_rows') = Len(sheet_rows) + 1
                    /\ sheet_rows'[Len(sheet_rows')].intent = <<"Detailed Tour Inquiry">>]_vars

\* the step of the booking flow at which a row of each list is the answer
StepOfList(kind) ==
    CASE kind = "tour" -> "awaiting_tour_type"
      [] kind = "people" -> "awaiting_people_count"
      [] kind = "time" -> "awaiting_time"
      [] OTHER -> None

\* the list of the booking flow that has the row
ListOfRow(action) ==
    CASE action \in Rows("tour") -> "tour"
      [] action \in Rows("people") -> "people"
      [] action \in Rows("time") -> "time"
      [] OTHER -> "none"

\* C27: a 'Book Tour' lead is written only for a sender whose session is at the
\* time step of the booking flow, and a selection of a row of the booking
\* lists, an old list tapped again included, changes nothing for a sender who
\* has no session or whose session is at another step
BookingStepsInOrder ==
    [][\A p \in Senders :
          /\ (/\ Len(sheet_rows') = Len(sheet_rows) + 1
              /\ sheet_rows'[Len(sheet_rows')].intent = <<"Book Tour">>
              /\ sheet_rows'[Len(sheet_rows')].whatsapp_id = p)
             => StepOf(booking_sessions, p) = "awaiting_time"
          /\ (/\ last'.from = p
              /\ last'.type = "list_reply"
              /\ last' # last
              /\ ListOfRow(Head(last'.body)) # "none"
              /\ StepOf(booking_sessions, p) # StepOfList(ListOfRow(Head(last'.body))))
             => booking_sessions' = booking_sessions /\ sheet_rows' = sheet_rows]_vars

\* the webhook handles the sender's selection of a menu id
SelectsMenu(p, id) ==
    \E type \in {"list_reply", "button_reply"} : \E dup \in BOOLEAN :
        WebhookSelection(p, type, <<id>>, dup, "ok", TRUE)

\* C28: whenever a sender selects 'book_tour' or 'inquire_tour', whatever the
\* sender's session is, the session afterwards holds only the first step and
\* the flow kind (and for an inquiry the empty inquiry data): no field
\* collected before and no reminder data
NewFlowStartsFresh ==
    [][\A p \in Senders :
          /\ SelectsMenu(p, "book_tour")
             => /\ p \in DOMAIN booking_sessions'
                /\ booking_sessions'[p] = [step |-> "awaiting_name", flow |-> "booking"]
          /\ SelectsMenu(p, "inquire_tour")
             => /\ p \in DOMAIN booking_sessions'
                /\ booking_sessions'[p] = [step |-> "awaiting_inquiry_tour", flow |-> "inquiry",
                                          inquiry_data |-> <<>>]]_vars

\* a booking flow was started while the session held the reminder of the
\* booking being completed
StartedOverReminder ==
    \E p \in Senders :
        /\ last.from = p
        /\ last.body = <<"book_tour">>
        /\ inflight[p] # NoCall
        /\ inflight[p].success
        /\ booking_sessions[p] = [step |-> "awaiting_name", flow |-> "booking"]

\* the steps the booking functions set, and the steps the inquiry functions set
BookingSteps ==
    {"awaiting_name", "awaiting_contact", "awaiting_tour_type", "awaiting_people_count",
     "awaiting_custom_people", "awaiting_date", "awaiting_time"}

InquirySteps ==
    {"awaiting_inquiry_tour", "awaiting_inquiry_people", "awaiting_inquiry_custom_people",
     "awaiting_inquiry_date", "awaiting_inquiry_time", "awaiting_inquiry_questions"}

\* the keys the booking functions store in a session
BookingFields == {"name", "contact", "tour_type", "people_count", "booking_date"}

\* C29: in every reachable state a session with flow 'booking' is at a booking
\* step and holds no inquiry_data, and a session with flow 'inquiry' is at an
\* inquiry step, holds inquiry_data and none of the booking fields
StepBelongsToFlow ==
    \A p \in DOMAIN booking_sessions :
        LET session == booking_sessions[p]
        IN  "flow" \in DOMAIN session =>
                /\ session.flow = "booking" =>
                       /\ session.step \in BookingSteps
                       /\ "inquiry_data" \notin DOMAIN session
                /\ session.flow = "inquiry" =>
                       /\ session.step \in InquirySteps
                       /\ "inquiry_data" \in DOMAIN session
                       /\ DOMAIN session \cap BookingFields = {}

(***************************************************************************)
(* Two senders.  Every handler is called with the sender of its event      *)
(* (message["from"]); their handlers interleave, and a booking of one      *)
(* sender may be in completion while the other sender's events are handled. *)
(***************************************************************************)
PairSenders == Senders \cup {"447700900123"}

InitPair ==
    /\ booking_sessions = <<>>
    /\ sheet_rows = <<>>
    /\ inflight = [p \in PairSenders |-> NoCall]
    /\ last_list = [p \in PairSenders |-> NoList]
    /\ last = NoEvent
    /\ outbox = <<>>
    /\ received = [p \in PairSenders |-> 0]
    /\ script = 0
    /\ serial = [p \in PairSenders |-> NoSerial]
    /\ applied = NoneApplied
    /\ now = StartNow
    /\ ADMIN_NUMBER = DefaultAdminNumber

PairInputs ==
    [names |-> {<<"Ahmed Al Harthy">>},
     contacts |-> {<<"91234567">>},
     dates |-> {<<"tomorrow">>},
     counts |-> {<<"2">>},
     people |-> {},
     questions |-> {},
     idle |-> {<<"hi">>},
     menu |-> {"book_tour", "inquire_tour"},
     rows |-> {"book_dolphin", "people_2", "time_9am", "inquiry_dolphin"},
     nets |-> {"ok"},
     appends |-> {TRUE}]

PairText ==
    \E p \in PairSenders : \E text \in TextChoices(PairInputs, p) :
        TextMessage(p, text, FALSE, "ok", TRUE)

PairList ==
    \E p \in PairSenders : \E id \in ListChoices(PairInputs, p) :
        Selection(p, "list_reply", id, FALSE, "ok", TRUE)

PairFinish == \E p \in PairSenders : FinishBooking(p, "ok")

PairReminderPass ==
    \E nets \in [PairSenders -> {"ok"}] : check_and_send_reminders(nets)

NextPair ==
    \/ PairText
    \/ PairList
    \/ PairFinish
    \/ PairReminderPass
    \/ Tick

SpecPair == InitPair /\ [][NextPair]_vars

\* the step is a handler working on an event of sender a: the webhook on a
\* text or a selection of a, or the rest of complete_booking for a
HandlesEventOf(a) ==
    \/ \E net \in SendOutcomes, ok \in BOOLEAN :
           \/ last'.type = "text" /\ WebhookText(a, last'.body, last'.dup, net, ok)
           \/ last'.type \in {"list_reply", "button_reply"}
              /\ WebhookSelection(a, last'.type, last'.body, last'.dup, net, ok)
    \/ \E net \in SendOutcomes : FinishBooking(a, net)

\* C30: a handler working on an event of sender a leaves the booking_sessions
\* entry of every other sender b as it was: present or absent as before, with
\* the same contents
SessionsIsolated ==
    [][\A a, b \in PairSenders :
          (a # b /\ HandlesEventOf(a))
              => /\ (b \in DOMAIN booking_sessions') = (b \in DOMAIN booking_sessions)
                 /\ SessionOf(booking_sessions', b) = SessionOf(booking_sessions, b)]_vars

\* one sender's booking is being completed (its reminder data written) while
\* the other sender is in the middle of a flow with collected fields
CompletedBesideAnother ==
    \E a, b \in PairSenders :
        /\ a # b
        /\ last.from = a
        /\ last.status = "in_complete_booking"
        /\ inflight[a] # NoCall
        /\ b \in DOMAIN booking_sessions
        /\ "name" \in DOMAIN booking_sessions[b]

(***************************************************************************)
(* Leads with and without a reminder: bookings and inquiries, dates that   *)
(* parse_date resolves and dates it does not, rows written and refused.    *)
(***************************************************************************)
ReminderInputs ==
    [names |-> {<<"Ahmed Al Harthy">>},
     contacts |-> {<<"91234567">>},
     dates |-> {<<"tomorrow", "x">>, <<"soon">>},
     counts |-> {<<"2">>},
     people |-> {},
     questions |-> {<<"No questions">>},
     idle |-> {<<"hi">>},
     menu |-> {"book_tour", "inquire_tour"},
     rows |-> {"book_dolphin", "people_2", "time_9am",
               "inquiry_dolphin", "inquiry_people_2", "inquiry_time_9am"},
     nets |-> {"ok"},
     appends |-> {TRUE, FALSE}]

NextReminders ==
    \/ TextIn(ReminderInputs)
    \/ ListIn(ReminderInputs)
    \/ Finish(ReminderInputs)
    \/ ReminderPass
    \/ Tick

SpecReminders == Init /\ [][NextReminders]_vars

\* the reminder job a session holds
JobOf(sessions, phone) ==
    IF HasJob(sessions, phone)
    THEN <<sessions[phone].reminder_time, sessions[phone].booking_details>>
    ELSE <<>>

\* C31: a step that leaves a sender with a reminder job the sender did not
\* hold before is a step that appended a lead row of that sender with intent
\* 'Book Tour' and a date parse_date resolves; so a completed inquiry, a
\* booking with an unresolvable date and a booking whose row was refused
\* schedule nothing
ReminderOnlyWithBookedLead ==
    [][\A p \in Senders :
          (HasJob(booking_sessions', p) /\ JobOf(booking_sessions', p) # JobOf(booking_sessions, p))
          => /\ Len(sheet_rows') = Len(sheet_rows) + 1
             /\ sheet_rows'[Len(sheet_rows')].whatsapp_id = p
             /\ sheet_rows'[Len(sheet_rows')].intent = <<"Book Tour">>
             /\ parse_date(sheet_rows'[Len(sheet_rows')].booking_date, Today(now)) # <<>>]_vars

\* a booking for 'soon' was persisted without a reminder, and the next booking,
\* for tomorrow, has just been persisted and holds its reminder
ReminderAfterOneWithout ==
    \E p \in Senders :
        /\ Len(sheet_rows) = 2
        /\ sheet_rows[1].intent = <<"Book Tour">>
        /\ sheet_rows[1].booking_date = <<"soon">>
        /\ sheet_rows[2].intent = <<"Book Tour">>
        /\ inflight[p] # NoCall
        /\ HasJob(booking_sessions, p)
        /\ received[p] = 0

(***************************************************************************)
(* Two handlers of one sender at the granularity of the statements         *)
(*     if to in booking_sessions:                                          *)
(*         del booking_sessions[to]                                        *)
(* of complete_booking and start_booking_flow.  The server handles each    *)
(* request on its own thread and booking_sessions has no lock, so the test  *)
(* and the del of one handler can be separated by statements of the other.  *)
(* inflight[p] also holds what complete_booking found (found) and how far   *)
(* the other handler, a 'book_tour' selection, has come (starting), and     *)
(* whether complete_booking has returned before the other handler          *)
(* (returned).                                                             *)
(***************************************************************************)
RaceInputs ==
    [names |-> {<<"Ahmed Al Harthy">>},
     contacts |-> {<<"91234567">>},
     dates |-> {<<"tomorrow">>, <<"soon">>},
     counts |-> {<<"2">>},
     people |-> {},
     questions |-> {},
     idle |-> {<<"hi">>},
     menu |-> {"book_tour"},
     rows |-> {"book_dolphin", "people_2", "time_9am"},
     nets |-> {"ok", "rejected"},
     appends |-> {TRUE, FALSE}]

\* complete_booking evaluates "to in booking_sessions"
TestSession(to) ==
    /\ inflight[to] # NoCall
    /\ "found" \notin DOMAIN inflight[to]
    /\ inflight' = [inflight EXCEPT ![to] = Update(@, [found |-> to \in DOMAIN booking_sessions])]
    /\ UNCHANGED <<booking_sessions, sheet_rows, now, last_list, last, outbox, received,
                   script, serial, applied, ADMIN_NUMBER>>

\* complete_booking from "del booking_sessions[to]" on: the del raises KeyError
\* when the key has gone since the test, and the webhook answers 500;
\* otherwise the confirmation is sent
DeleteAndConfirm(to, net) ==
    /\ inflight[to] # NoCall
    /\ "found" \in DOMAIN inflight[to]
    /\ "returned" \notin DOMAIN inflight[to]
    /\ IF inflight[to].found /\ to \notin DOMAIN booking_sessions
       THEN /\ outbox' = <<>>
            /\ last' = [last EXCEPT !.status = "error"]
            /\ UNCHANGED booking_sessions
       ELSE /\ booking_sessions' = IF inflight[to].found THEN Del(booking_sessions, to)
                                   ELSE booking_sessions
            /\ outbox' = <<Msg(to, IF inflight[to].success THEN "booking_confirmed"
                                   ELSE "booking_received", NoInfo, net)>>
            /\ last' = [last EXCEPT !.status = "list_handled"]
    /\ inflight' = [inflight EXCEPT ![to] =
                       IF Get(@, "starting", FALSE) THEN Update(@, [returned |-> TRUE])
                       ELSE NoCall]
    /\ UNCHANGED <<sheet_rows, now, last_list, received, script, serial, applied,
                   ADMIN_NUMBER>>

\* start_booking_flow of a 'book_tour' selection handled meanwhile: its test
\* and del
StartDeletes(to) ==
    /\ inflight[to] # NoCall
    /\ "starting" \notin DOMAIN inflight[to]
    /\ booking_sessions' = ClearSession(booking_sessions, to)
    /\ inflight' = [inflight EXCEPT ![to] = Update(@, [starting |-> TRUE])]
    /\ UNCHANGED <<sheet_rows, now, last_list, last, outbox, received, script, serial,
                   applied, ADMIN_NUMBER>>

\* start_booking_flow after its del: the new session and the question for the name
StartCreates(to, net) ==
    /\ inflight[to] # NoCall
    /\ "starting" \in DOMAIN inflight[to]
    /\ inflight[to].starting
    /\ booking_sessions' = Put(booking_sessions, to, [step |-> "awaiting_name", flow |-> "booking"])
    /\ inflight' = [inflight EXCEPT ![to] =
                       IF "returned" \in DOMAIN @ THEN NoCall
                       ELSE Update(@, [starting |-> FALSE])]
    /\ outbox' = <<Msg(to, "ask_name", NoInfo, net)>>
    /\ UNCHANGED <<sheet_rows, now, last_list, last, received, script, serial, applied,
                   ADMIN_NUMBER>>

NextRace ==
    \/ TextIn(RaceInputs)
    \/ ListIn(RaceInputs)
    \/ \E p \in Senders : TestSession(p)
    \/ \E p \in Senders : \E net \in RaceInputs.nets : DeleteAndConfirm(p, net)
    \/ \E p \in Senders : StartDeletes(p)
    \/ \E p \in Senders : \E net \in RaceInputs.nets : StartCreates(p, net)

SpecRace == Init /\ [][NextRace]_vars

\* C32: when complete_booking ends for a sender whose 'Book Tour' row was
\* written, a confirmation has been handed to send_whatsapp_message for the
\* sender, however the statements of a second handler of the same sender
\* fall between complete_booking's
PersistedBookingIsConfirmed ==
    [][\A p \in Senders :
          (/\ inflight[p] # NoCall
           /\ inflight[p].success
           /\ \E net \in SendOutcomes : DeleteAndConfirm(p, net))
          => /\ last'.status # "error"
             /\ \E i \in DOMAIN outbox' :
                    outbox'[i].to = p /\ outbox'[i].kind = "booking_confirmed"]_vars

\* the steps at which the bot waits for a row of a list it sent
ListSteps ==
    {"awaiting_tour_type", "awaiting_people_count", "awaiting_time",
     "awaiting_inquiry_people", "awaiting_inquiry_time"}

AdminTextsNeverReachTheFlow ==
    [][/\ AdminTextHandled
          => /\ last'.status = "admin_command_handled"
             /\ StepOf(booking_sessions', last'.from) = StepOf(booking_sessions, last'.from)
             /\ sheet_rows' = sheet_rows
       /\ \A p \in Senders :
             (IsAdmin(p) /\ SelectsMenu(p, "book_tour"))
             => StepOf(booking_sessions', p) = "awaiting_name"]_vars

\* the admin sender started a booking by selection and the name typed next
\* was answered as an unknown command
AdminNameTakenAsCommand ==
    /\ last.type = "text"
    /\ last.body = <<"Ahmed Al Harthy">>
    /\ last.status = "admin_command_handled"
    /\ IsAdmin(last.from)
    /\ StepOf(booking_sessions, last.from) = "awaiting_name"
    /\ Len(outbox) = 1
    /\ outbox[1].info.text = "unknown_command"

(***************************************************************************)
(* Delivery and session state.  In each state of the two senders, one of   *)
(* whom has a number clean_oman_number does not normalise, every event the *)
(* sender can send is handled under each outcome of the sends.             *)
(***************************************************************************)
NextDelivery ==
    \/ PairText
    \/ PairList
    \/ PairFinish

SpecDelivery == InitPair /\ [][NextDelivery]_vars

\* the events a sender can send in the current state
EventsOf(p) ==
    {[type |-> "text", body |-> text] : text \in TextChoices(PairInputs, p)}
        \cup {[type |-> "list_reply", body |-> id] : id \in ListChoices(PairInputs, p)}

\* the webhook handles the event of p while the sends end as net
HandledWith(p, event, net) ==
    IF event.type = "text" THEN TextMessage(p, event.body, FALSE, net, TRUE)
    ELSE Selection(p, event.type, event.body, FALSE, net, TRUE)

\* the sessions among which the session left by the handler is looked for
SessionsAfter(p, event) ==
    {NoSession, SessionOf(booking_sessions, p)}
        \cup (IF event.type = "text"
              THEN {SessionOf(text_step(booking_sessions, p, event.body).result.sessions, p)}
              ELSE IF IsTimeSelection(event.body)
              THEN {SessionOf(schedule_reminder(booking_sessions,
                                  [name |-> Seg(event.body[2]), whatsapp_id |-> p,
                                   tour_type |-> Seg(event.body[4]),
                                   booking_date |-> Seg(event.body[6]),
                                   booking_time |-> time_map(event.body[1]),
                                   people_count |-> Seg(event.body[5])], now), p)}
              ELSE {SessionOf(handle_interaction(booking_sessions, event.body, p, TRUE,
                                                 sheet_rows, Today(now)).sessions, p)})

\* C35: for every event a sender can send, the session the handler leaves is
\* one and the same under every outcome of send_whatsapp_message (delivered,
\* rejected, response lost), also for the sender whose number cannot be
\* normalised
SessionIgnoresDelivery ==
    \A p \in PairSenders : \A event \in EventsOf(p) :
        ENABLED HandledWith(p, event, "ok")
        => \E session \in SessionsAfter(p, event) : \A net \in SendOutcomes :
               /\ ENABLED (HandledWith(p, event, net)
                           /\ SessionOf(booking_sessions', p) = session)
               /\ ~ENABLED (HandledWith(p, event, net)
                            /\ SessionOf(booking_sessions', p) # session)

\* the sender nothing can be sent to has typed the name and the contact: the
\* tour list was not delivered and the session waits for its row
AdvancedWithoutDelivery ==
    \E p \in PairSenders :
        /\ clean_oman_number(p) = <<>>
        /\ last.from = p
        /\ last.status = "contact_received"
        /\ StepOf(booking_sessions, p) = "awaiting_tour_type"
        /\ Len(outbox) = 1
        /\ ~outbox[1].delivered

(***************************************************************************)
(* check_availability on its own: sheets of up to MaxRows records, read by *)
(* a server without a sheet, with a sheet whose get_all_records raises and *)
(* with a sheet that answers.                                              *)
(***************************************************************************)
SheetStates == {"none", "raises", "ok"}

\* check_availability with the sheet in each of its states; an exception of
\* get_all_records ends in the except clause
AvailabilityOf(sheet, rows, tour_type, booking_date, booking_time, people_count, today) ==
    IF sheet = "raises"
    THEN [ok |-> TRUE, msg |-> "unavailable", left |-> 0, requested |-> 0]
    ELSE check_availability(sheet = "ok", rows, tour_type, booking_date, booking_time,
                            people_count, today)

RecordSamples ==
    {LeadRow(StartNow, <<"Ahmed Al Harthy">>, <<"91234567">>, intent, "96891234567",
             <<"Dolphin Watching">>, <<"tomorrow">>, booking_time, people_count, <<"">>) :
        intent \in {<<"Book Tour">>, <<"Detailed Tour Inquiry">>},
        booking_time \in {<<"9:00 AM">>, <<"4:00 PM">>},
        people_count \in {<<"6 people">>, <<"2 people">>}}

RECURSIVE SheetsUpTo(_)
SheetsUpTo(n) ==
    IF n = 0 THEN {<<>>}
    ELSE SheetsUpTo(n - 1)
             \cup {Append(rows, record) : rows \in {s \in SheetsUpTo(n - 1) : Len(s) = n - 1},
                                          record \in RecordSamples}

CheckAvailability ==
    /\ applied = NoneApplied
    /\ \E sheet \in SheetStates, rows \in SheetsUpTo(MaxRows) :
       \E tour_type \in {<<"Dolphin Watching">>, <<"Fishing Trip">>} :
       \E booking_date \in {<<"tomorrow">>, <<"soon">>} :
       \E booking_time \in {<<"9:00 AM">>, <<"Not specified">>} :
       \E people_count \in {<<"2 people">>, <<"8 people">>, <<"soon">>} :
           applied' = [fn |-> "check_availability", sheet |-> sheet, rows |-> rows,
                       tour_type |-> tour_type, booking_date |-> booking_date,
                       booking_time |-> booking_time, people_count |-> people_count,
                       today |-> Today(now),
                       value |-> AvailabilityOf(sheet, rows, tour_type, booking_date,
                                                booking_time, people_count, Today(now))]
    /\ UNCHANGED <<booking_sessions, sheet_rows, now, inflight, last_list, last, outbox,
                   received, script, serial, ADMIN_NUMBER>>

NextAvailability == CheckAvailability

SpecAvailability == Init /\ [][NextAvailability]_vars

\* the people of the records that are 'Book Tour' rows of the tour with the
\* requested date and time as parse_date and parse_time read them
BookedPeople(rows, tour_type, date, time, today) ==
    LET Same(i) == /\ rows[i].tour_type = tour_type
                   /\ Lower(rows[i].intent) = <<"book tour">>
                   /\ parse_date(rows[i].booking_date, today) = date
                   /\ parse_time(rows[i].booking_time) = time
        People(i) == IF Same(i) THEN extract_people_count(rows[i].people_count) ELSE 0
        Sum[n \in 0 .. Len(rows)] == IF n = 0 THEN 0 ELSE Sum[n - 1] + People(n)
    IN  Sum[Len(rows)]

\* C36: check_availability reports the slot as available when there is no
\* sheet, when reading the records raises and when the requested date cannot
\* be parsed; it reports not-available exactly when the sheet was read, the
\* date was parsed and the people of the 'Book Tour' records of the same
\* tour, date and time plus the requested people exceed the tour's capacity
AvailabilityFailsOpen ==
    applied.fn = "check_availability" =>
        LET date == parse_date(applied.booking_date, applied.today)
            undetermined == applied.sheet # "ok" \/ date = <<>>
            total == BookedPeople(applied.rows, applied.tour_type, date,
                                  parse_time(applied.booking_time), applied.today)
                         + extract_people_count(applied.people_count)
        IN  /\ undetermined => applied.value.ok
            /\ ~applied.value.ok <=> (~undetermined /\ total > max_capacity(applied.tour_type))

\* a request of 2 people was refused because the records of the slot hold 8,
\* beside an inquiry record that does not count
RefusedOverCapacity ==
    /\ applied.fn = "check_availability"
    /\ ~applied.value.ok
    /\ applied.people_count = <<"2 people">>
    /\ applied.tour_type = <<"Dolphin Watching">>
    /\ Len(applied.rows) = 2
    /\ applied.value.left = 0

(***************************************************************************)
(* The total of the confirmation: bookings of every party size of the list. *)
(***************************************************************************)
PriceInputs ==
    [names |-> {<<"Ahmed Al Harthy">>},
     contacts |-> {<<"91234567">>},
     dates |-> {<<"tomorrow">>},
     counts |-> {<<"2">>},
     people |-> {},
     questions |-> {},
     idle |-> {<<"hi">>},
     menu |-> {"book_tour"},
     rows |-> {"book_dolphin", "book_fishing", "people_2", "people_4", "people_6", "time_9am"},
     nets |-> {"ok"},
     appends |-> {TRUE}]

NextPrices ==
    \/ TextIn(PriceInputs)
    \/ ListIn(PriceInputs)
    \/ Finish(PriceInputs)

SpecPrices == Init /\ [][NextPrices]_vars

\* the total the 'Booking Confirmed' message of complete_booking quotes
QuotedTotal(call) == calculate_price(call.tour_type, call.people_count)

\* the discount the pricing text advertises, in percent
AdvertisedDiscount(people) ==
    IF people >= 6 THEN 15 ELSE IF people = 4 THEN 10 ELSE 0

\* C37: the total quoted when a booking is confirmed is the tour's price per
\* person times the people, less 10% for 4 people and less 15% for 6 people
\* or more (a party of 5 is left open)
QuotedTotalIsAdvertised ==
    [][\A p \in Senders :
          (/\ inflight[p] # NoCall
           /\ inflight[p].success
           /\ \E net \in SendOutcomes : FinishBooking(p, net)
           /\ PricedPeople(inflight[p].people_count) # 5)
          => QuotedTotal(inflight[p])
                 = prices(inflight[p].tour_type) * PricedPeople(inflight[p].people_count)
                       * (100 - AdvertisedDiscount(PricedPeople(inflight[p].people_count)))]_vars

BroadcastOutcomes == SendOutcomes \cup {"raises"}

\* '"book" in intent_lower' and '"inquiry" in intent_lower'
IntentContains(intent, word) ==
    CASE Lower(intent) = <<"book tour">> -> word = "book"
      [] Lower(intent) = <<"detailed tour inquiry">> -> word = "inquiry"
      [] OTHER -> FALSE

\* whether broadcast puts the record among target_leads
IsTarget(row, segment) ==
    /\ row.whatsapp_id # ""
    /\ clean_oman_number(row.whatsapp_id) # <<>>
    /\ \/ segment = "all"
       \/ segment = "book_tour" /\ IntentContains(row.intent, "book")
       \/ segment = "inquire_tour" /\ IntentContains(row.intent, "inquiry")

\* target_leads, as the indexes of their records
target_leads(rows, segment) ==
    LET F[n \in 0 .. Len(rows)] ==
            IF n = 0 THEN <<>>
            ELSE IF IsTarget(rows[n], segment) THEN Append(F[n - 1], n) ELSE F[n - 1]
    IN  F[Len(rows)]

\* one pass of the sending loop that loses the recipient whose send raised
CountOne_losing_exceptions(counts, lead, whatsapp_id, outcome) ==
    IF outcome = "raises" THEN [counts EXCEPT !.attempts = Append(@, lead)]
    ELSE IF send_whatsapp_message(whatsapp_id, outcome)
    THEN [counts EXCEPT !.sent = @ + 1, !.attempts = Append(@, lead)]
    ELSE [counts EXCEPT !.failed = @ + 1, !.attempts = Append(@, lead)]

\* one pass of the sending loop: the send is attempted, and the recipient is
\* counted as sent when send_whatsapp_message returns True, as failed when it
\* returns False and in the except clause
CountOne(counts, lead, whatsapp_id, outcome) ==
    IF outcome = "raises"
    THEN [counts EXCEPT !.failed = @ + 1, !.attempts = Append(@, lead)]
    ELSE IF send_whatsapp_message(whatsapp_id, outcome)
    THEN [counts EXCEPT !.sent = @ + 1, !.attempts = Append(@, lead)]
    ELSE [counts EXCEPT !.failed = @ + 1, !.attempts = Append(@, lead)]

\* broadcast: the response's status and counts, and the leads the loop tried
broadcast(sheet, rows, segment, message, outcomes) ==
    LET none == [sent |-> 0, failed |-> 0, attempts |-> <<>>]
        Answer(status, counts, total) ==
            [status |-> status, sent |-> counts.sent, failed |-> counts.failed,
             total_recipients |-> total, attempts |-> counts.attempts]
        leads == target_leads(rows, segment)
        Loop[i \in 0 .. Len(leads)] ==
            IF i = 0 THEN none
            ELSE CountOne(Loop[i - 1], leads[i], rows[leads[i]].whatsapp_id, outcomes[i])
    IN  IF message = <<>> THEN Answer("error_400", none, 0)
        ELSE IF sheet # "ok" THEN Answer("error_500", none, 0)
        ELSE IF Len(leads) = 0 THEN Answer("no_recipients", none, 0)
        ELSE Answer("broadcast_completed", Loop[Len(leads)], Len(leads))

BroadcastRecords ==
    {LeadRow(StartNow, <<"Ahmed Al Harthy">>, <<"91234567">>, intent, whatsapp_id,
             <<"Dolphin Watching">>, <<"tomorrow">>, <<"9:00 AM">>, <<"2 people">>, <<"">>) :
        intent \in {<<"Book Tour">>, <<"Detailed Tour Inquiry">>},
        whatsapp_id \in {"96891234567", "447700900123"}}

RECURSIVE BroadcastSheets(_)
BroadcastSheets(n) ==
    IF n = 0 THEN {<<>>}
    ELSE BroadcastSheets(n - 1)
             \cup {Append(rows, record) :
                      rows \in {s \in BroadcastSheets(n - 1) : Len(s) = n - 1},
                      record \in BroadcastRecords}

Broadcast ==
    /\ applied = NoneApplied
    /\ \E sheet \in SheetStates, rows \in BroadcastSheets(MaxRows) :
       \E segment \in {"all", "book_tour", "inquire_tour"} :
       \E message \in {<<>>, <<"hi">>} :
       \E outcomes \in [1 .. MaxRows -> BroadcastOutcomes] :
           applied' = [fn |-> "broadcast", sheet |-> sheet, rows |-> rows,
                       segment |-> segment, message |-> message, outcomes |-> outcomes,
                       value |-> broadcast(sheet, rows, segment, message, outcomes)]
    /\ UNCHANGED <<booking_sessions, sheet_rows, now, inflight, last_list, last, outbox,
                   received, script, serial, ADMIN_NUMBER>>

NextBroadcast == Broadcast

SpecBroadcast == Init /\ [][NextBroadcast]_vars

\* C39: a completed broadcast reports sent + failed = total_recipients, the
\* total is the number of records the segment selects, and each of them (a
\* recipient is an entry of target_leads) was tried exactly once, whether the
\* sends were delivered, failed or raised
BroadcastCountsAddUp ==
    (applied.fn = "broadcast" /\ applied.value.status = "broadcast_completed") =>
        LET selected == {i \in DOMAIN applied.rows : IsTarget(applied.rows[i], applied.segment)}
            tried == applied.value.attempts
        IN  /\ applied.value.sent + applied.value.failed = applied.value.total_recipients
            /\ applied.value.total_recipients = Cardinality(selected)
            /\ \A i \in selected : Cardinality({j \in DOMAIN tried : tried[j] = i}) = 1
            /\ \A j \in DOMAIN tried : tried[j] \in selected

\* a broadcast to two recipients was completed although one send raised and
\* the other was rejected
BroadcastWithFailures ==
    /\ applied.fn = "broadcast"
    /\ applied.value.status = "broadcast_completed"
    /\ applied.value.total_recipients = 2
    /\ applied.value.failed = 2
    /\ applied.outcomes[1] = "raises"
    /\ applied.outcomes[2] = "rejected"
====
